---- MODULE Spec2Model ----
(***************************************************************************)
(* The Odoo BOM recursive fetcher (src/odoo/sync-odoo.py, OdooBOMFetcher)  *)
(* as a state machine.                                                     *)
(*                                                                         *)
(* Text: a Python str is a sequence of one-character strings, so that      *)
(* lower(), `in`, endswith() and slicing are computed, not assumed.        *)
(* Numbers: a quantity is an exact fraction <<n, d>> in lowest terms with  *)
(* d > 0 (the floats the catalogs below hold are dyadic, so the float      *)
(* arithmetic of the code is exact on them).  A formatted quantity         *)
(* (f"{q:.2f}") is the number of hundredths it prints.                     *)
(* Optional values (a search_read result, `x[0] if x else None`) are       *)
(* sequences of length 0 or 1.  An Odoo many2one that is False is 0.       *)
(***************************************************************************)
EXTENDS Integers, Sequences, FiniteSets, TLC

VARIABLES
    catalog,          \* the backing Odoo tables the RPC calls read
    processed_boms,   \* self.processed_boms
    bom_data,         \* self.bom_data
    parent_names,     \* self.parent_names
    pc,               \* where fetch_bom_recursive stands
    reference,        \* the argument of the running / last fetch_bom_recursive
    stack,            \* the active get_bom_lines calls, innermost last
    error,            \* the exception that ended the last fetch, or "none"
    results,          \* what each finished call gave its caller, in call order
    main,             \* main(): its arguments, environment, position and effects
    probe,            \* a method called on its own: the call and what it returned
    automad,          \* the Automad sync: server listing, local tree, sidecar, loop
    drive             \* the Google Drive sync: listing, local tree, sidecar, runs

\* what belongs to the callers of the fetcher and to the other scripts, not to
\* the fetcher
outside == << main, probe, automad, drive >>

vars == << catalog, processed_boms, bom_data, parent_names, pc, reference,
           stack, error, results, outside >>

----------------------------------------------------------------------------
(* Bounds *)

\* fetch_bom_recursive calls made on one fetcher instance
MaxFetches == 3

\* the interpreter's call-depth limit (sys.getrecursionlimit()), scaled down
RecursionLimit == 6

----------------------------------------------------------------------------
(* str *)

UpperChars ==
    <<"A","B","C","D","E","F","G","H","I","J","K","L","M","N","O","P","Q",
      "R","S","T","U","V","W","X","Y","Z">>

LowerChars ==
    <<"a","b","c","d","e","f","g","h","i","j","k","l","m","n","o","p","q",
      "r","s","t","u","v","w","x","y","z">>

lower_char(c) ==
    IF \E i \in DOMAIN UpperChars : UpperChars[i] = c
    THEN LowerChars[CHOOSE i \in DOMAIN UpperChars : UpperChars[i] = c]
    ELSE c

\* s.lower()
lower(s) == [i \in 1..Len(s) |-> lower_char(s[i])]

\* k in s
contains(s, k) ==
    \E i \in 0..(Len(s) - Len(k)) : SubSeq(s, i + 1, i + Len(k)) = k

\* s.endswith(suffix)
endswith(s, suffix) ==
    /\ Len(s) >= Len(suffix)
    /\ SubSeq(s, Len(s) - Len(suffix) + 1, Len(s)) = suffix

copy_suffix == <<" ","(","c","o","p","y",")">>

\* if name.endswith(' (copy)'): name = name[:-7]
strip_copy(name) ==
    IF endswith(name, copy_suffix) THEN SubSeq(name, 1, Len(name) - 7) ELSE name

----------------------------------------------------------------------------
(* float quantities *)

RECURSIVE GCD(_, _)
GCD(a, b) == IF b = 0 THEN a ELSE GCD(b, a % b)

Abs(n) == IF n < 0 THEN -n ELSE n

Q(n, d) ==
    LET g == GCD(Abs(n), d) IN << n \div g, d \div g >>

QMul(a, b) == Q(a[1] * b[1], a[2] * b[2])

QSubInt(a, k) == Q(a[1] - k * a[2], a[2])

QGeInt(a, k) == a[1] >= k * a[2]

QLtInt(a, k) == a[1] < k * a[2]

\* max(0, q)
QMax0(a) == IF a[1] < 0 THEN <<0, 1>> ELSE a

\* f"{q:.2f}" of a non-negative q: the hundredths printed, the exact value
\* rounded to nearest, ties to even
format_2f(q) ==
    LET n == q[1] * 100
        whole == n \div q[2]
        rest == n % q[2]
    IN  IF 2 * rest > q[2] THEN whole + 1
        ELSE IF 2 * rest < q[2] THEN whole
        ELSE IF whole % 2 = 0 THEN whole ELSE whole + 1

----------------------------------------------------------------------------
(* OdooBOMFetcher.__init__ *)

filter_keywords ==
    << <<"z","e","b","r","a">>,
       <<"l","a","b","e","l">>,
       <<"p","l","a","s","t","i","c"," ","b","a","g">>,
       <<"z","i","p"," ","b","a","g">>,
       <<"a","d","h","e","s","i","v","e"," ","f","o","a","m">>,
       <<"b","u","b","b","l","e"," ","w","r","a","p">>,
       <<"s","l","e","e","v","e">>,
       <<"s","t","i","c","k","e","r">>,
       <<"c","e","r","t","i","f","i","c","a","t","e">>,
       <<"u","s","e","r"," ","m","a","n","u","a","l">>,
       <<"e","q","u","i","p","m","e","n","t"," ","w","i","r","e">>,
       <<"p","a","l","l","e","t">>,
       <<"c","a","r","d","b","o","a","r","d">>,
       <<"p","a","c","k","a","g","i","n","g">>,
       <<"b","o","x">> >>

----------------------------------------------------------------------------
(* search_read on the four models the fetcher reads.  Each returns the     *)
(* matching rows in the server's order.                                    *)

\* search_read('product.product', [['id', '=', product_id]], ...)
product_by_id(product_id) ==
    SelectSeq(catalog.product_product, LAMBDA p : p.id = product_id)

\* search_read('product.product', [['default_code', '=', code]], ...)
products_by_code(code) ==
    SelectSeq(catalog.product_product, LAMBDA p : p.default_code = code)

\* search_read('product.template', [['id', '=', template_id]], ['name'])
template_by_id(template_id) ==
    SelectSeq(catalog.product_template, LAMBDA t : t.id = template_id)

\* search_read('mrp.bom.line', [['bom_id', '=', bom_id]], ...)
bom_lines_of(bom_id) ==
    SelectSeq(catalog.mrp_bom_line, LAMBDA l : l.bom_id = bom_id)

get_product_by_reference(ref) ==
    LET products == products_by_code(ref)
        templates ==
            SelectSeq(catalog.product_template, LAMBDA t : t.default_code = ref)
        variant ==
            IF templates # <<>> /\ templates[1].product_variant_ids # <<>>
            THEN product_by_id(templates[1].product_variant_ids[1])
            ELSE <<>>
        found == IF products = <<>> THEN variant ELSE products
    IN  IF found # <<>> THEN << found[1] >> ELSE <<>>

\* a search that forgets ['active', '=', True]
get_bom_for_product_inactive(product_id) ==
    LET boms ==
            SelectSeq(catalog.mrp_bom, LAMBDA b : b.product_id = product_id)
        product == product_by_id(product_id)
        tmpl_id == IF product # <<>> THEN product[1].product_tmpl_id ELSE 0
        by_template ==
            IF tmpl_id # 0
            THEN SelectSeq(catalog.mrp_bom,
                           LAMBDA b : /\ b.product_tmpl_id = tmpl_id
                                      /\ (b.product_id = 0 \/ b.product_id = product_id))
            ELSE <<>>
        found == IF boms = <<>> THEN by_template ELSE boms
    IN  IF found # <<>> THEN << found[1] >> ELSE <<>>

\* a search that forgets its product filter: any product is given the first
\* active BOM of the catalog
get_bom_for_product_any(product_id) ==
    LET boms == SelectSeq(catalog.mrp_bom, LAMBDA b : b.active)
    IN  IF boms # <<>> THEN << boms[1] >> ELSE <<>>

get_bom_for_product(product_id) ==
    LET boms ==
            SelectSeq(catalog.mrp_bom,
                      LAMBDA b : b.product_id = product_id /\ b.active)
        product == product_by_id(product_id)
        tmpl_id == IF product # <<>> THEN product[1].product_tmpl_id ELSE 0
        by_template ==
            IF tmpl_id # 0
            THEN SelectSeq(catalog.mrp_bom,
                           LAMBDA b : /\ b.product_tmpl_id = tmpl_id
                                      /\ b.active
                                      /\ (b.product_id = 0 \/ b.product_id = product_id))
            ELSE <<>>
        found == IF boms = <<>> THEN by_template ELSE boms
    IN  IF found # <<>> THEN << found[1] >> ELSE <<>>

adjust_quantity(quantity) ==
    IF QGeInt(quantity, 11) /\ QLtInt(quantity, 50)
    THEN QMax0(QSubInt(quantity, 2))
    ELSE IF QGeInt(quantity, 50) /\ QLtInt(quantity, 100)
    THEN QMax0(QSubInt(quantity, 4))
    ELSE IF QGeInt(quantity, 100)
    THEN QMax0(QSubInt(quantity, 10))
    ELSE quantity

\* the template's name, when the product has a template that the catalog holds
template_name(product) ==
    IF product.product_tmpl_id # 0 /\ template_by_id(product.product_tmpl_id) # <<>>
    THEN << template_by_id(product.product_tmpl_id)[1].name >>
    ELSE <<>>

\* the name a BOM line's component is shown under: the template's name when it
\* differs from the variant's, without a trailing ' (copy)'
final_name(product) ==
    LET tn == template_name(product)
        chosen == IF tn # <<>> /\ tn[1] # <<>> /\ tn[1] # product.name
                  THEN tn[1]
                  ELSE product.name
    IN  strip_copy(chosen)

\* a filter that compares the name as it is written, without lower()
should_filter_case_sensitive(name) ==
    \E k \in DOMAIN filter_keywords : contains(name, filter_keywords[k])

\* any(keyword in name.lower() for keyword in self.filter_keywords)
should_filter(name) ==
    \E lowered \in { lower(name) } :
        \E k \in DOMAIN filter_keywords : contains(lowered, filter_keywords[k])

\* a line quantity that multiplies by the adjusted quantity of the parent
line_quantity_adjusted(line, parent_qty) ==
    QMul(line.product_qty, adjust_quantity(parent_qty))

\* quantity = line['product_qty'] * parent_qty
line_quantity(line, parent_qty) == QMul(line.product_qty, parent_qty)

----------------------------------------------------------------------------
(* get_collapsed_single_child *)

\* what get_collapsed_single_child returns when it does not collapse
None == [kind |-> "none"]

\* the loop's tests without the keyword filter
collapse_keeps_unfiltered(line) ==
    /\ line.product_id # 0
    /\ product_by_id(line.product_id) # <<>>

\* the loop's tests on one line: it has a product, the catalog knows the
\* product, and the product's name holds no filter keyword
collapse_keeps(line) ==
    /\ line.product_id # 0
    /\ product_by_id(line.product_id) # <<>>
    /\ ~should_filter(final_name(product_by_id(line.product_id)[1]))

\* the dict with the line's own quantity, the multiplier left out
collapse_component_unscaled(line, parent_qty, level) ==
    LET product == product_by_id(line.product_id)[1]
    IN  [ kind |-> "component",
          product_id |-> line.product_id,
          component_reference |-> product.default_code,
          component_name |-> final_name(product),
          quantity |-> line.product_qty,
          level |-> level,
          has_child_bom |-> FALSE ]

\* the dict appended to valid_components for a line that is kept
collapse_component(line, parent_qty, level) ==
    LET product == product_by_id(line.product_id)[1]
    IN  [ kind |-> "component",
          product_id |-> line.product_id,
          component_reference |-> product.default_code,
          component_name |-> final_name(product),
          quantity |-> line_quantity(line, parent_qty),
          level |-> level,
          has_child_bom |-> FALSE ]

valid_components(bom_id, parent_qty, level) ==
    LET kept == SelectSeq(bom_lines_of(bom_id), collapse_keeps)
    IN  [i \in 1..Len(kept) |-> collapse_component(kept[i], parent_qty, level)]

\* the one element of a singleton set; { e(x) : x \in {v} } computes v once
\* and names it x, as a local variable of the code holds a value
Only(S) == CHOOSE x \in S : TRUE

RECURSIVE get_collapsed_single_child(_, _, _, _)

\* depth is the interpreter's call depth: beyond RecursionLimit the call
\* raises RecursionError, which nothing in the fetcher catches
get_collapsed_single_child(bom_id, parent_qty, level, depth) ==
    IF depth > RecursionLimit THEN [kind |-> "RecursionError"]
    ELSE Only({
        IF Len(components) # 1 THEN None
        ELSE Only({
            IF child_bom = <<>>
            THEN [components[1] EXCEPT !.has_child_bom = FALSE]
            ELSE Only({
                IF collapsed_child.kind = "RecursionError" THEN collapsed_child
                ELSE IF collapsed_child.kind = "component" THEN collapsed_child
                ELSE [components[1] EXCEPT !.has_child_bom = TRUE]
                : collapsed_child \in
                    { get_collapsed_single_child(child_bom[1].id,
                                                 components[1].quantity,
                                                 level + 1, depth + 1) } })
            : child_bom \in { get_bom_for_product(components[1].product_id) } })
        : components \in { valid_components(bom_id, parent_qty, level) } })

----------------------------------------------------------------------------
(* get_bom_lines: the pieces of the loop body *)

\* d[k] = v
DictSet(d, k, v) ==
    [x \in (DOMAIN d) \cup {k} |-> IF x = k THEN v ELSE d[x]]

\* d.get(k, default)
DictGet(d, k, default) == IF k \in DOMAIN d THEN d[k] ELSE default

\* the name stored for a parent reference that is not cached yet
lookup_parent_name(parent_reference) ==
    LET parent_products == products_by_code(parent_reference)
        tn == template_name(parent_products[1])
        parent_name == IF tn # <<>> THEN tn[1] ELSE parent_products[1].name
    IN  IF parent_products # <<>> THEN strip_copy(parent_name) ELSE parent_reference

\* if parent_reference not in self.parent_names: ...
cache_parent_name(names, parent_reference) ==
    IF parent_reference \in DOMAIN names
    THEN names
    ELSE DictSet(names, parent_reference, lookup_parent_name(parent_reference))

\* the dict appended for a line that is not filtered
line_record(level, component_ref, component_name, quantity, parent_reference, names) ==
    [ level |-> level,
      component_reference |-> component_ref,
      component_name |-> component_name,
      component_quantity |-> format_2f(adjust_quantity(quantity)),
      parent_bom_reference |-> parent_reference,
      parent_bom_name |-> DictGet(names, parent_reference, parent_reference),
      has_child_bom |-> FALSE ]

\* formatted_component that never carries the flag of the lookahead
collapsed_record_leaf(collapsed_component, parent_reference, names) ==
    [ level |-> collapsed_component.level,
      component_reference |-> collapsed_component.component_reference,
      component_name |-> collapsed_component.component_name,
      component_quantity |-> format_2f(adjust_quantity(collapsed_component.quantity)),
      parent_bom_reference |-> parent_reference,
      parent_bom_name |-> DictGet(names, parent_reference, parent_reference),
      has_child_bom |-> FALSE ]

\* formatted_component with the level one deeper than the lookahead gave
collapsed_record_deeper(collapsed_component, parent_reference, names) ==
    [ level |-> collapsed_component.level + 1,
      component_reference |-> collapsed_component.component_reference,
      component_name |-> collapsed_component.component_name,
      component_quantity |-> format_2f(adjust_quantity(collapsed_component.quantity)),
      parent_bom_reference |-> parent_reference,
      parent_bom_name |-> DictGet(names, parent_reference, parent_reference),
      has_child_bom |-> collapsed_component.has_child_bom ]

\* formatted_component
collapsed_record(collapsed_component, parent_reference, names) ==
    [ level |-> collapsed_component.level,
      component_reference |-> collapsed_component.component_reference,
      component_name |-> collapsed_component.component_name,
      component_quantity |-> format_2f(adjust_quantity(collapsed_component.quantity)),
      parent_bom_reference |-> parent_reference,
      parent_bom_name |-> DictGet(names, parent_reference, parent_reference),
      has_child_bom |-> collapsed_component.has_child_bom ]

\* the recursion key without the fallback to the name
child_parent_reference_only(component_ref, component_name) == component_ref

\* component_ref if component_ref else component_name
child_parent_reference(component_ref, component_name) ==
    IF component_ref # <<>> THEN component_ref ELSE component_name

\* list.pop(i)
RemoveAt(s, i) == SubSeq(s, 1, i - 1) \o SubSeq(s, i + 1, Len(s))

\* a recursive call that is handed its caller's level, not level + 1
Frame_SameLevel(bom_id, parent_reference, parent_qty, level) ==
    [ bom_id |-> bom_id,
      parent_reference |-> parent_reference,
      parent_qty |-> parent_qty,
      level |-> IF level > 1 THEN level - 1 ELSE level,
      pos |-> 1,
      entered |-> FALSE ]

\* a get_bom_lines call: its arguments, the loop's position, and whether the
\* cycle guard has been passed
Frame(bom_id, parent_reference, parent_qty, level) ==
    [ bom_id |-> bom_id,
      parent_reference |-> parent_reference,
      parent_qty |-> parent_qty,
      level |-> level,
      pos |-> 1,
      entered |-> FALSE ]

\* a level-0 dict that is put among the components, at level 1
root_record_level_one(ref, product) ==
    [ level |-> 1,
      component_reference |-> ref,
      component_name |-> product.name,
      component_quantity |-> 100,
      parent_bom_reference |-> <<>>,
      parent_bom_name |-> <<>>,
      has_child_bom |-> TRUE ]

\* the level-0 dict of fetch_bom_recursive
root_record(ref, product) ==
    [ level |-> 0,
      component_reference |-> ref,
      component_name |-> product.name,
      component_quantity |-> 100,
      parent_bom_reference |-> <<>>,
      parent_bom_name |-> <<>>,
      has_child_bom |-> TRUE ]

\* what the caller of fetch_bom_recursive gets: the list, or the exception
Outcome(kind, err, records) ==
    [ reference |-> reference, outcome |-> kind, error |-> err, records |-> records ]

----------------------------------------------------------------------------
(* The catalogs the fetcher is run against.  Products 1..6 with their      *)
(* templates; the BOM of product p has id 10 + p.                          *)

Prod(id, code, name, tmpl) ==
    [ id |-> id, default_code |-> code, name |-> name, product_tmpl_id |-> tmpl ]

Tmpl(id, code, name, variants) ==
    [ id |-> id, default_code |-> code, name |-> name, product_variant_ids |-> variants ]

Bom(id, product_id, tmpl, active) ==
    [ id |-> id, product_id |-> product_id, product_tmpl_id |-> tmpl, active |-> active ]

\* a line of product owner's BOM: n/d units of product child (0: no product)
Ln(owner, child, n, d) ==
    [ bom_id |-> 10 + owner, product_id |-> child, product_qty |-> Q(n, d) ]

AllProducts ==
    << Prod(1, <<"A">>, <<"A","x","l","e">>, 1),
       Prod(2, <<"B">>, <<"B","o","l","t"," ","(","c","o","p","y",")">>, 2),
       Prod(3, <<"C">>, <<"C","a","m"," ","v","2">>, 3),
       Prod(4, <<"D">>, <<"D","o","w","e","l">>, 4),
       Prod(5, <<"X">>, <<"G","i","f","t"," ","B","O","X">>, 5),
       Prod(6, <<"E">>, <<"E","y","e">>, 6),
       Prod(7, <<>>, <<"N","u","t">>, 7) >>

AllTemplates ==
    << Tmpl(1, <<"A">>, <<"A","x","l","e">>, <<1>>),
       Tmpl(2, <<"B">>, <<"B","o","l","t"," ","(","c","o","p","y",")">>, <<2>>),
       Tmpl(3, <<"C">>, <<"C","a","m">>, <<3>>),
       Tmpl(4, <<"D">>, <<"D","o","w","e","l">>, <<4>>),
       Tmpl(5, <<"X">>, <<"G","i","f","t"," ","B","O","X">>, <<5>>),
       Tmpl(6, <<"K">>, <<"E","y","e">>, <<6>>),
       Tmpl(7, <<>>, <<"N","u","t">>, <<7>>) >>

\* products ids with their templates, an active variant-linked BOM for each
\* product of owners, and the lines given
Catalog(ids, owners, lines) ==
    [ product_product |-> SelectSeq(AllProducts, LAMBDA p : p.id \in ids),
      product_template |-> SelectSeq(AllTemplates, LAMBDA t : t.id \in ids),
      mrp_bom |-> [i \in 1..Len(owners) |-> Bom(10 + owners[i], owners[i], owners[i], TRUE)],
      mrp_bom_line |-> lines ]

\* A -> B x2, B -> C x3, C -> D x2: single-child BOMs all the way down
CatChain ==
    Catalog({1, 2, 3, 4}, <<1, 2, 3>>,
            << Ln(1, 2, 2, 1), Ln(2, 3, 3, 1), Ln(3, 4, 2, 1) >>)

\* two levels of branching BOMs, quantities that cross the brackets
CatBranch ==
    Catalog({1, 2, 3, 4, 6}, <<1, 2>>,
            << Ln(1, 2, 12, 1), Ln(1, 4, 60, 1),
               Ln(2, 3, 5, 1), Ln(2, 4, 1, 2), Ln(2, 6, 10, 1) >>)

\* one BOM whose line quantities sit on and next to the bracket edges
CatBrackets ==
    Catalog({1, 2, 3, 4, 6}, <<1, 2>>,
            << Ln(1, 2, 11, 1), Ln(1, 3, 99, 2), Ln(1, 4, 50, 1), Ln(1, 6, 100, 1),
               Ln(2, 3, 21, 2), Ln(2, 4, 1, 8), Ln(2, 6, 10, 1) >>)

\* A -> B, B -> A: a cycle of single-line BOMs
CatCycleSingle ==
    Catalog({1, 2}, <<1, 2>>, << Ln(1, 2, 1, 1), Ln(2, 1, 1, 1) >>)

\* A -> B, D and B -> A, D: a cycle of two-line BOMs
CatCycleDouble ==
    Catalog({1, 2, 4}, <<1, 2>>,
            << Ln(1, 2, 1, 1), Ln(1, 4, 1, 1), Ln(2, 1, 1, 1), Ln(2, 4, 1, 1) >>)

\* A -> X, D where the filtered X has a two-line BOM of its own
CatFilteredBom ==
    Catalog({1, 3, 4, 5}, <<1, 5>>,
            << Ln(1, 5, 1, 1), Ln(1, 4, 1, 1), Ln(5, 3, 2, 1), Ln(5, 4, 3, 1) >>)

\* A -> B, B -> X, D, C where the filtered X has a single-line BOM
CatFilteredFirst ==
    Catalog({1, 2, 3, 4, 5}, <<1, 2, 5>>,
            << Ln(1, 2, 1, 1),
               Ln(2, 5, 1, 1), Ln(2, 4, 1, 1), Ln(2, 3, 1, 1),
               Ln(5, 4, 2, 1) >>)

\* A -> B, D where B's only line is the filtered X
CatFilteredOnly ==
    Catalog({1, 2, 4, 5}, <<1, 2>>,
            << Ln(1, 2, 1, 1), Ln(1, 4, 1, 1), Ln(2, 5, 1, 1) >>)

\* A -> B, B (the same sub-assembly twice), B -> C, D
CatShared ==
    Catalog({1, 2, 3, 4}, <<1, 2>>,
            << Ln(1, 2, 1, 1), Ln(1, 2, 2, 1), Ln(2, 3, 1, 1), Ln(2, 4, 1, 1) >>)

\* A -> B, D; B -> C; C -> D, E: the single-child chain ends at a branching BOM
CatBottomOut ==
    Catalog({1, 2, 3, 4, 6}, <<1, 2, 3>>,
            << Ln(1, 2, 1, 1), Ln(1, 4, 1, 1), Ln(2, 3, 2, 1),
               Ln(3, 4, 1, 1), Ln(3, 6, 1, 1) >>)

\* A's BOM has a line without a product and a line whose product (id 9) the
\* catalog does not hold
CatDangling ==
    Catalog({1, 4}, <<1>>,
            << Ln(1, 0, 1, 1), Ln(1, 4, 1, 1), Ln(1, 9, 1, 1) >>)

\* A -> B x2, B -> C x3, C has no BOM: ROOT-1 -> MID-1 -> LEAF-1
CatExample ==
    Catalog({1, 2, 3}, <<1, 2>>,
            << Ln(1, 2, 2, 1), Ln(2, 3, 3, 1) >>)

\* A -> B; B -> C x2; C -> D, E: two single-child BOMs above a branching one
CatDeepBottomOut ==
    Catalog({1, 2, 3, 4, 6}, <<1, 2, 3>>,
            << Ln(1, 2, 1, 1), Ln(2, 3, 2, 1), Ln(3, 4, 1, 1), Ln(3, 6, 1, 1) >>)

\* A -> B x2, D; B -> C x3, D; C -> E x2: a chain below a branching BOM
CatChainBelow ==
    Catalog({1, 2, 3, 4, 6}, <<1, 2, 3>>,
            << Ln(1, 2, 2, 1), Ln(1, 4, 1, 1), Ln(2, 3, 3, 1), Ln(2, 4, 1, 1),
               Ln(3, 6, 2, 1) >>)

\* A -> N x2, D; N -> C, E: the sub-assembly N has no internal reference
CatNoCode ==
    Catalog({1, 3, 4, 6, 7}, <<1, 7>>,
            << Ln(1, 7, 2, 1), Ln(1, 4, 1, 1), Ln(7, 3, 1, 1), Ln(7, 6, 1, 1) >>)

Catalogs ==
    { CatChain, CatBranch, CatBrackets, CatCycleSingle, CatCycleDouble,
      CatFilteredBom, CatFilteredFirst, CatFilteredOnly, CatShared,
      CatBottomOut, CatDangling, CatExample, CatDeepBottomOut, CatChainBelow,
      CatNoCode }

\* a reference no product and no template carries
unknown_reference == <<"Q">>

\* the references a caller may ask for
References(cat) ==
    ({ cat.product_product[i].default_code : i \in DOMAIN cat.product_product }
     \cup { cat.product_template[i].default_code : i \in DOMAIN cat.product_template }
     \cup { unknown_reference }) \ { <<>> }

----------------------------------------------------------------------------
(* The state machine *)

\* the fetcher is used as a library: main() is not running
NoMain == [ pc |-> "off" ]

\* no method has been called on its own
NoProbe == [ call |-> "none" ]

\* the Automad sync is not running
NoAutomad == [ pc |-> "off" ]

\* the Google Drive sync is not running
NoDrive == [ pc |-> "off" ]

\* the fetcher as __init__ leaves it
Constructed ==
    /\ processed_boms = {}
    /\ bom_data = <<>>
    /\ parent_names = <<>>
    /\ pc = "idle"
    /\ reference = <<>>
    /\ stack = <<>>
    /\ error = "none"
    /\ results = <<>>

Init ==
    /\ catalog \in Catalogs
    /\ processed_boms = {}
    /\ bom_data = <<>>
    /\ parent_names = <<>>
    /\ pc = "idle"
    /\ reference = <<>>
    /\ stack = <<>>
    /\ error = "none"
    /\ results = <<>>
    /\ main = NoMain
    /\ probe = NoProbe
    /\ automad = NoAutomad
    /\ drive = NoDrive

\* fetch_bom_recursive(r), up to the product lookup: the reset
FetchBegin(r) ==
    /\ pc \in {"idle", "returned", "raised"}
    /\ Len(results) < MaxFetches
    /\ reference' = r
    /\ processed_boms' = {}
    /\ bom_data' = <<>>
    /\ error' = "none"
    /\ pc' = "lookup"
    /\ UNCHANGED << outside, catalog, parent_names, stack, results >>

\* a fetch that puts the level-0 record into the output before it has looked
\* for the BOM
FetchResolve_RootFirst ==
    /\ pc = "lookup"
    /\ LET product == get_product_by_reference(reference)
           bom == get_bom_for_product(product[1].id)
       IN  IF product = <<>>
           THEN /\ pc' = "raised"
                /\ error' = "ProductNotFound"
                /\ results' = Append(results, Outcome("raised", "ProductNotFound", <<>>))
                /\ UNCHANGED << parent_names, bom_data, stack >>
           ELSE IF bom = <<>>
           THEN /\ pc' = "raised"
                /\ error' = "BomNotFound"
                /\ results' = Append(results, Outcome("raised", "BomNotFound", <<>>))
                /\ bom_data' = Append(bom_data, root_record(reference, product[1]))
                /\ UNCHANGED << parent_names, stack >>
           ELSE /\ parent_names' = DictSet(parent_names, reference, product[1].name)
                /\ bom_data' = Append(bom_data, root_record(reference, product[1]))
                /\ stack' = << Frame(bom[1].id, reference, <<1, 1>>, 1) >>
                /\ pc' = "walk"
                /\ UNCHANGED << error, results >>
    /\ UNCHANGED << outside, catalog, processed_boms, reference >>

\* fetch_bom_recursive: the product and BOM lookups, the level-0 record and
\* the call of get_bom_lines
FetchResolve ==
    /\ pc = "lookup"
    /\ LET product == get_product_by_reference(reference)
           bom == get_bom_for_product(product[1].id)
       IN  IF product = <<>>
           THEN /\ pc' = "raised"
                /\ error' = "ProductNotFound"
                /\ results' = Append(results, Outcome("raised", "ProductNotFound", <<>>))
                /\ UNCHANGED << parent_names, bom_data, stack >>
           ELSE IF bom = <<>>
           THEN /\ pc' = "raised"
                /\ error' = "BomNotFound"
                /\ results' = Append(results, Outcome("raised", "BomNotFound", <<>>))
                /\ UNCHANGED << parent_names, bom_data, stack >>
           ELSE /\ parent_names' = DictSet(parent_names, reference, product[1].name)
                /\ bom_data' = Append(bom_data, root_record(reference, product[1]))
                /\ stack' = << Frame(bom[1].id, reference, <<1, 1>>, 1) >>
                /\ pc' = "walk"
                /\ UNCHANGED << error, results >>
    /\ UNCHANGED << outside, catalog, processed_boms, reference >>

\* get_bom_lines, on entry: the cycle guard
EnterBom ==
    /\ pc = "walk"
    /\ stack # <<>>
    /\ ~stack[Len(stack)].entered
    /\ IF stack[Len(stack)].bom_id \in processed_boms
       THEN /\ stack' = SubSeq(stack, 1, Len(stack) - 1)
            /\ UNCHANGED processed_boms
       ELSE /\ processed_boms' = processed_boms \cup { stack[Len(stack)].bom_id }
            /\ stack' = [stack EXCEPT ![Len(stack)].entered = TRUE]
    /\ UNCHANGED << outside, catalog, bom_data, parent_names, pc, reference, error, results >>

\* get_bom_lines: one pass of `for line in bom_lines`.  The locals of the
\* loop body are bound in the order the code assigns them (\E x \in {e} names
\* the value of e).
ProcessLine ==
    /\ pc = "walk"
    /\ stack # <<>>
    /\ stack[Len(stack)].entered
    /\ stack[Len(stack)].pos <= Len(bom_lines_of(stack[Len(stack)].bom_id))
    /\ \E frame \in { stack[Len(stack)] } :
       \E line \in { bom_lines_of(frame.bom_id)[frame.pos] } :
       \E next_line \in { [stack EXCEPT ![Len(stack)].pos = frame.pos + 1] } :
       \E product_details \in { product_by_id(line.product_id) } :
         IF line.product_id = 0
         THEN \* continue
              /\ stack' = next_line
              /\ UNCHANGED << bom_data, parent_names, pc, error, results >>
         ELSE IF product_details = <<>>
         THEN \* product_details[0] of an empty list
              /\ pc' = "raised"
              /\ error' = "IndexError"
              /\ stack' = <<>>
              /\ results' = Append(results, Outcome("raised", "IndexError", <<>>))
              /\ UNCHANGED << bom_data, parent_names >>
         ELSE
           \E quantity \in { line_quantity(line, frame.parent_qty) } :
           \E component_ref \in { product_details[1].default_code } :
           \E component_name \in { final_name(product_details[1]) } :
           \E filtered \in { should_filter(component_name) } :
           \E names \in { IF filtered THEN parent_names
                          ELSE cache_parent_name(parent_names, frame.parent_reference) } :
           \E appended \in
               { IF filtered THEN bom_data
                 ELSE Append(bom_data,
                             line_record(frame.level, component_ref, component_name,
                                         quantity, frame.parent_reference, names)) } :
           \E item_index \in { Len(appended) } :
           \E child_bom \in { get_bom_for_product(line.product_id) } :
             IF child_bom = <<>>
             THEN /\ bom_data' = appended
                  /\ parent_names' = names
                  /\ stack' = next_line
                  /\ UNCHANGED << pc, error, results >>
             ELSE
               \E collapsed_component \in
                   { get_collapsed_single_child(child_bom[1].id, quantity,
                                                frame.level, Len(stack) + 1) } :
                 IF collapsed_component.kind = "RecursionError"
                 THEN /\ pc' = "raised"
                      /\ error' = "RecursionError"
                      /\ stack' = <<>>
                      /\ results' =
                            Append(results, Outcome("raised", "RecursionError", <<>>))
                      /\ bom_data' = appended
                      /\ parent_names' = names
                 ELSE IF collapsed_component.kind = "component"
                 THEN /\ bom_data' =
                            Append(IF filtered THEN appended
                                   ELSE RemoveAt(appended, item_index),
                                   collapsed_record(collapsed_component,
                                                    frame.parent_reference, names))
                      /\ parent_names' = names
                      /\ stack' = next_line
                      /\ UNCHANGED << pc, error, results >>
                 ELSE /\ bom_data' =
                            IF filtered THEN appended
                            ELSE [appended EXCEPT ![item_index].has_child_bom = TRUE]
                      /\ parent_names' = names
                      /\ stack' =
                            Append(next_line,
                                   Frame(child_bom[1].id,
                                         child_parent_reference(component_ref,
                                                                component_name),
                                         quantity, frame.level + 1))
                      /\ UNCHANGED << pc, error, results >>
    /\ UNCHANGED << outside, catalog, processed_boms, reference >>

\* get_bom_lines: the loop is over, the call returns
ReturnBom ==
    /\ pc = "walk"
    /\ stack # <<>>
    /\ stack[Len(stack)].entered
    /\ stack[Len(stack)].pos > Len(bom_lines_of(stack[Len(stack)].bom_id))
    /\ stack' = SubSeq(stack, 1, Len(stack) - 1)
    /\ UNCHANGED << outside, catalog, processed_boms, bom_data, parent_names, pc,
                    reference, error, results >>

\* fetch_bom_recursive: return self.bom_data
FetchReturn ==
    /\ pc = "walk"
    /\ stack = <<>>
    /\ pc' = "returned"
    /\ results' = Append(results, Outcome("returned", "none", bom_data))
    /\ UNCHANGED << outside, catalog, processed_boms, bom_data, parent_names, reference,
                    stack, error >>

Next ==
    \/ \E r \in References(catalog) : FetchBegin(r)
    \/ FetchResolve
    \/ EnterBom
    \/ ProcessLine
    \/ ReturnBom
    \/ FetchReturn

Spec == Init /\ [][Next]_vars

\* a call of fetch_bom_recursive runs to its end: the interpreter does not
\* stop in the middle of it
FairSpec ==
    Spec /\ WF_vars(FetchResolve \/ EnterBom \/ ProcessLine \/ ReturnBom \/ FetchReturn)

\* what the list the i-th call returned holds now: `return self.bom_data` hands
\* out the one list object __init__ created, which every later call clears and
\* refills in place
ReturnedList(i) == bom_data

----------------------------------------------------------------------------
(* main(): one run of the script *)

\* what a run is started with: the --credentials option and its file, whether
\* --api-key / ODOO_API_KEY gives a key, how the server answers the
\* constructor, whether the output file can be opened, and the reference
MainArgs(cat) ==
    [ credentials : {"none", "missing", "with_key", "without_key"},
      key_given   : BOOLEAN,
      server      : {"ok", "auth_fails", "unreachable"},
      disk        : {"ok", "open_fails"},
      reference   : References(cat) ]

\* main() after parse_args: nothing returned yet, no file written,
\* export_to_csv not called
MainStarted(args) ==
    [ pc |-> "credentials", args |-> args, api_key |-> args.key_given,
      exit |-> <<>>, csv |-> <<>>, exported |-> <<>> ]

MainInit ==
    /\ catalog \in Catalogs
    /\ Constructed
    /\ main \in { MainStarted(a) : a \in MainArgs(catalog) }
    /\ probe = NoProbe
    /\ automad = NoAutomad
    /\ drive = NoDrive

\* `return status`
MainReturn(status) == [main EXCEPT !.pc = "done", !.exit = << status >>]

\* if args.credentials: ...
MainCredentials ==
    /\ main.pc = "credentials"
    /\ main' = IF main.args.credentials = "missing" THEN MainReturn(1)
               ELSE IF main.args.credentials = "with_key"
               THEN [main EXCEPT !.pc = "validate", !.api_key = TRUE]
               ELSE [main EXCEPT !.pc = "validate"]
    /\ UNCHANGED << catalog, processed_boms, bom_data, parent_names, pc,
                    reference, stack, error, results, probe, automad, drive >>

\* if not args.api_key: return 1
MainValidate ==
    /\ main.pc = "validate"
    /\ main' = IF main.api_key THEN [main EXCEPT !.pc = "connect"] ELSE MainReturn(1)
    /\ UNCHANGED << catalog, processed_boms, bom_data, parent_names, pc,
                    reference, stack, error, results, probe, automad, drive >>

\* fetcher = OdooBOMFetcher(...): the proxy call fails, or authenticate()
\* gives no uid and __init__ raises; both end in `except Exception`
MainConnect ==
    /\ main.pc = "connect"
    /\ main' = IF main.args.server = "ok" THEN [main EXCEPT !.pc = "fetch"]
               ELSE MainReturn(1)
    /\ UNCHANGED << catalog, processed_boms, bom_data, parent_names, pc,
                    reference, stack, error, results, probe, automad, drive >>

\* bom_data = fetcher.fetch_bom_recursive(args.reference)
MainFetch ==
    /\ main.pc = "fetch"
    /\ pc = "idle"
    /\ FetchBegin(main.args.reference)

\* export_to_csv(data, filename), called by main on what the fetch returned
export_to_csv(data) ==
    IF data = <<>> THEN [main EXCEPT !.exported = << data >>]
    ELSE IF main.args.disk = "open_fails"
    THEN [main EXCEPT !.exported = << data >>, !.pc = "export_raised"]
    ELSE [main EXCEPT !.exported = << data >>, !.csv = << data >>]

\* fetcher.export_to_csv(bom_data, args.output); return 0, or the exception
\* open() raised is caught and main returns 1
MainExport ==
    /\ main.pc = "fetch"
    /\ pc = "returned"
    /\ \E after \in { export_to_csv(bom_data) } :
          main' = IF after.pc = "export_raised"
                  THEN [after EXCEPT !.pc = "done", !.exit = << 1 >>]
                  ELSE [after EXCEPT !.pc = "done", !.exit = << 0 >>]
    /\ UNCHANGED << catalog, processed_boms, bom_data, parent_names, pc,
                    reference, stack, error, results, probe, automad, drive >>

\* an except branch that reports the error and falls through to `return 0`
MainCatch_ReturnsZero ==
    /\ main.pc = "fetch"
    /\ pc = "raised"
    /\ main' = MainReturn(0)
    /\ UNCHANGED << catalog, processed_boms, bom_data, parent_names, pc,
                    reference, stack, error, results, probe, automad, drive >>

\* except Exception as e: return 1
MainCatch ==
    /\ main.pc = "fetch"
    /\ pc = "raised"
    /\ main' = MainReturn(1)
    /\ UNCHANGED << catalog, processed_boms, bom_data, parent_names, pc,
                    reference, stack, error, results, probe, automad, drive >>

MainNext ==
    \/ MainCredentials
    \/ MainValidate
    \/ MainConnect
    \/ MainFetch
    \/ FetchResolve
    \/ EnterBom
    \/ ProcessLine
    \/ ReturnBom
    \/ FetchReturn
    \/ MainExport
    \/ MainCatch

MainSpec == MainInit /\ [][MainNext]_vars

----------------------------------------------------------------------------
(* get_bom_for_product called on its own, over every small BOM table *)

\* rows of mrp.bom in a table
MaxBoms == 2

\* two variants (1, 2) of template 1 and the single variant (3) of template 2
VariantProducts ==
    << Prod(1, <<"A">>, <<"A","x","l","e">>, 1),
       Prod(2, <<"B">>, <<"B","o","l","t">>, 1),
       Prod(3, <<"C">>, <<"C","a","m">>, 2) >>

VariantTemplates ==
    << Tmpl(1, <<"T">>, <<"A","x","l","e">>, <<1, 2>>),
       Tmpl(2, <<"C">>, <<"C","a","m">>, <<3>>) >>

\* the BOM rows a server can hold: a BOM belongs to a template and is either
\* template-wide (product_id False) or tied to one of the template's variants
BomRows ==
    { [ product_id |-> v, product_tmpl_id |-> t, active |-> a ] :
        v \in {0, 1, 2}, t \in {1}, a \in BOOLEAN }
    \cup { [ product_id |-> v, product_tmpl_id |-> t, active |-> a ] :
             v \in {0, 3}, t \in {2}, a \in BOOLEAN }

\* every mrp.bom table of at most MaxBoms rows, ids in the server's order
BomTables ==
    UNION { { [i \in 1..n |-> Bom(10 + i, rows[i].product_id,
                                  rows[i].product_tmpl_id, rows[i].active)]
              : rows \in [1..n -> BomRows] }
            : n \in 0..MaxBoms }

BomCatalogs ==
    { [ product_product |-> VariantProducts,
        product_template |-> VariantTemplates,
        mrp_bom |-> boms,
        mrp_bom_line |-> <<>> ] : boms \in BomTables }

\* the product ids asked about: the three products and one id no product has
ProbeProducts == {1, 2, 3, 4}

BomInit ==
    /\ catalog \in BomCatalogs
    /\ Constructed
    /\ main = NoMain
    /\ probe = NoProbe
    /\ automad = NoAutomad
    /\ drive = NoDrive

\* fetcher.get_bom_for_product(product_id)
ProbeBom(product_id) ==
    /\ probe' = [ call |-> "get_bom_for_product", product_id |-> product_id,
                  value |-> get_bom_for_product(product_id) ]
    /\ UNCHANGED << catalog, processed_boms, bom_data, parent_names, pc,
                    reference, stack, error, results, main, automad, drive >>

BomNext == \E product_id \in ProbeProducts : ProbeBom(product_id)

BomSpec == BomInit /\ [][BomNext]_vars

\* ---------------------------------------------------------------------------
\* get_collapsed_single_child called on its own, on the BOMs of a catalog
\* ---------------------------------------------------------------------------

\* the multipliers and levels the lookahead is called with
ProbeQuantities == { Q(1, 1), Q(2, 1), Q(1, 2) }
ProbeLevels == { 1, 2 }

CollapseInit ==
    /\ catalog \in Catalogs
    /\ Constructed
    /\ results = << >>
    /\ main = NoMain
    /\ probe = NoProbe
    /\ automad = NoAutomad
    /\ drive = NoDrive

\* fetcher.get_collapsed_single_child(bom_id, parent_qty, level), called from
\* outside: the interpreter's call depth starts at 1
ProbeCollapse(bom_id, parent_qty, level) ==
    /\ probe' = [ call       |-> "get_collapsed_single_child",
                  bom_id     |-> bom_id,
                  parent_qty |-> parent_qty,
                  level      |-> level,
                  value      |-> get_collapsed_single_child(bom_id, parent_qty,
                                                            level, 1) ]
    /\ UNCHANGED << catalog, processed_boms, bom_data, parent_names, pc,
                    reference, stack, error, results, main, automad, drive >>

CollapseNext ==
    \E bom \in { catalog.mrp_bom[n] : n \in DOMAIN catalog.mrp_bom } :
        \E parent_qty \in ProbeQuantities, level \in ProbeLevels :
            ProbeCollapse(bom.id, parent_qty, level)

CollapseSpec == CollapseInit /\ [][CollapseNext]_vars

\* ---------------------------------------------------------------------------
\* The Automad sync (sync-automad.py; sync-automad-sftp.py has the same logic
\* over SFTP).  Paths and file contents are sequences of one-character
\* strings; a file's content is the sequence of its lines.
\* ---------------------------------------------------------------------------

\* str.startswith
startswith(s, prefix) ==
    /\ Len(prefix) <= Len(s)
    /\ SubSeq(s, 1, Len(prefix)) = prefix

\* str.lstrip(chars)
RECURSIVE lstrip(_, _)
lstrip(s, chars) ==
    IF s # << >> /\ s[1] \in chars THEN lstrip(Tail(s), chars) ELSE s

\* str.rstrip(chars)
RECURSIVE rstrip(_, _)
rstrip(s, chars) ==
    IF s # << >> /\ s[Len(s)] \in chars
    THEN rstrip(SubSeq(s, 1, Len(s) - 1), chars)
    ELSE s

\* the parts of a path between slashes, as pathlib keeps them: empty parts and
\* "." parts are dropped
RECURSIVE path_parts(_, _, _)
path_parts(s, part, parts) ==
    LET closed == IF part = << >> \/ part = << "." >> THEN parts
                  ELSE Append(parts, part)
    IN  IF s = << >> THEN closed
        ELSE IF s[1] = "/" THEN path_parts(Tail(s), << >>, closed)
        ELSE path_parts(Tail(s), Append(part, s[1]), parts)

\* "/".join(parts)
RECURSIVE join_parts(_)
join_parts(parts) ==
    IF parts = << >> THEN << >>
    ELSE IF Len(parts) = 1 THEN parts[1]
    ELSE parts[1] \o << "/" >> \o join_parts(Tail(parts))

\* str(Path(path)): "/" in front of an absolute path, "." for an empty
\* relative one
path_str(absolute, parts) ==
    IF absolute THEN << "/" >> \o join_parts(parts)
    ELSE IF parts = << >> THEN << "." >>
    ELSE join_parts(parts)

\* str(Path(path).parent): the last part is dropped; the root and "." are
\* their own parents
path_parent(path) ==
    LET parts    == path_parts(path, << >>, << >>)
        absolute == path # << >> /\ path[1] = "/"
    IN  IF parts = << >> THEN path_str(absolute, parts)
        ELSE path_str(absolute, SubSeq(parts, 1, Len(parts) - 1))

Whitespace == { " ", "\t" }

\* one line against (?i)^\s*private\s*:\s*on\s*$
line_is_private(line) ==
    LET text    == lower(rstrip(lstrip(line, Whitespace), Whitespace))
        key     == << "p", "r", "i", "v", "a", "t", "e" >>
        after   == lstrip(SubSeq(text, Len(key) + 1, Len(text)), Whitespace)
        value   == lstrip(Tail(after), Whitespace)
    IN  /\ startswith(text, key)
        /\ after # << >>
        /\ after[1] = ":"
        /\ value = << "o", "n" >>

\* is_private_page, applied to the text of the page (the page was read)
is_private_page(content) ==
    \E n \in DOMAIN content : line_is_private(content[n])

\* calculate_md5: the digest of a content, never empty, different for
\* different contents
calculate_md5(content) == << "md5", content >>

\* the size in bytes: the characters of the lines and their line ends
RECURSIVE size_of(_)
size_of(content) ==
    IF content = << >> THEN 0
    ELSE Len(content[1]) + 1 + size_of(Tail(content))

\* the path of a listed file or folder below the sync folder, lines 151-159 and
\* 221-224
relative_to(path, remote_base_path) ==
    IF startswith(path, remote_base_path)
    THEN lstrip(SubSeq(path, Len(remote_base_path) + 1, Len(path)), { "/" })
    ELSE lstrip(path, { "/" })

\* identify_private_folders: the folder of every .txt page that has content
\* and is private
identify_private_folders(files, remote_base_path) ==
    { relative_to(path_parent(files[n].path), remote_base_path) :
        n \in { m \in DOMAIN files :
                    /\ endswith(files[m].path, << ".", "t", "x", "t" >>)
                    /\ files[m].content # << >>
                    /\ is_private_page(files[m].content) } }

\* lines 227-234: the file's folder is a private folder or lies below one
in_private_folder_prefix(relative_path, private_folders) ==
    \E relative_folder \in { path_parent(relative_path) } :
        \E private_folder \in private_folders :
            startswith(relative_folder, private_folder)

in_private_folder(relative_path, private_folders) ==
    \E relative_folder \in { path_parent(relative_path) } :
        \E private_folder \in private_folders :
            \/ relative_folder = private_folder
            \/ startswith(relative_folder, private_folder \o << "/" >>)

\* lines 243-257: the file is downloaded unless the local copy exists, the
\* sidecar has an entry of the same size with a digest, and the local copy has
\* that digest
needs_download_size_only(relative_path, size, local, metadata) ==
    ~ /\ relative_path \in DOMAIN local
      /\ relative_path \in DOMAIN metadata
      /\ metadata[relative_path].size = size

needs_download(relative_path, size, local, metadata) ==
    ~ /\ relative_path \in DOMAIN local
      /\ relative_path \in DOMAIN metadata
      /\ metadata[relative_path].size = size
      /\ metadata[relative_path].md5 # << >>
      /\ calculate_md5(local[relative_path]) = metadata[relative_path].md5

\* dict[key] = value on a function used as a dict
DictPut(dict, key, value) ==
    [ k \in DOMAIN dict \cup { key } |-> IF k = key THEN value ELSE dict[k] ]

\* the file contents of the inputs
PrivateLine == << "p", "r", "i", "v", "a", "t", "e", ":", " ", "o", "n" >>
PrivateLineLoud == << " ", "P", "r", "i", "v", "a", "t", "e", " ", ":", "O", "N", " " >>
PublicLine == << "p", "r", "i", "v", "a", "t", "e", ":", " ", "o", "f", "f" >>
TitleLine == << "t", "i", "t", "l", "e", ":", " ", "x" >>
PrivatePage == << TitleLine, PrivateLine >>
PrivatePageLoud == << PrivateLineLoud, TitleLine >>
PublicPage == << TitleLine, PublicLine >>
PlainPage == << TitleLine >>
Image == << << "i", "m", "g" >> >>
OtherImage == << << "g", "m", "i" >> >>
EmptyFile == << >>

\* the sync folder as it is given on the command line
RemoteBases == { << "/", "p" >>, << "/", "p", "/" >> }

BasePage == << "/", "p", "/", "a", ".", "t", "x", "t" >>
BaseImage == << "/", "p", "/", "b", ".", "p", "n", "g" >>
SubPage == << "/", "p", "/", "s", "/", "a", ".", "t", "x", "t" >>
SubImage == << "/", "p", "/", "s", "/", "b", ".", "p", "n", "g" >>
DeepImage == << "/", "p", "/", "s", "/", "t", "/", "b", ".", "p", "n", "g" >>
SiblingImage == << "/", "p", "/", "s", "t", "/", "b", ".", "p", "n", "g" >>

\* a listed file: list_ftp_contents gives the path and the size, the content
\* is what the server sends for the path
Listed(path, content) ==
    [ path |-> path, size |-> size_of(content), content |-> content ]

\* the listings of the server: the two pages are private or not
Listings ==
    { << Listed(BasePage, base_page), Listed(BaseImage, Image),
         Listed(SubPage, sub_page), Listed(SubImage, Image),
         Listed(DeepImage, Image), Listed(SiblingImage, Image) >> :
        base_page \in { PrivatePage, PlainPage },
        sub_page \in { PrivatePageLoud, PublicPage } }

\* what an earlier run left for one file: the local copy and the sidecar entry
LocalCopies == { << >>, << Image >>, << OtherImage >> }
SidecarEntries ==
    { << >>,
      << [ size |-> size_of(Image), md5 |-> calculate_md5(Image) ] >>,
      << [ size |-> size_of(Image), md5 |-> calculate_md5(OtherImage) ] >>,
      << [ size |-> size_of(Image) + 1, md5 |-> calculate_md5(Image) ] >>,
      << [ size |-> size_of(Image), md5 |-> << >> ] >> }

\* the files an earlier run can have left for the two images it varies
Leftovers ==
    { [ base_copy |-> c, base_entry |-> e, sibling |-> s ] :
        c \in LocalCopies, e \in SidecarEntries, s \in BOOLEAN }

LeftLocal(left) ==
    [ k \in (IF left.base_copy = << >> THEN { }
             ELSE { << "b", ".", "p", "n", "g" >> })
          \cup (IF left.sibling
                THEN { << "s", "t", "/", "b", ".", "p", "n", "g" >> }
                ELSE { })
        |-> IF k = << "b", ".", "p", "n", "g" >> THEN left.base_copy[1]
            ELSE Image ]

LeftMetadata(left) ==
    [ k \in (IF left.base_entry = << >> THEN { }
             ELSE { << "b", ".", "p", "n", "g" >> })
          \cup (IF left.sibling
                THEN { << "s", "t", "/", "b", ".", "p", "n", "g" >> }
                ELSE { })
        |-> IF k = << "b", ".", "p", "n", "g" >> THEN left.base_entry[1]
            ELSE [ size |-> size_of(Image), md5 |-> calculate_md5(Image) ] ]

\* sync_automad_files has listed the server (lines 204-207) and loaded the
\* sidecar (line 197)
AutomadStarted(files, remote_base_path, left) ==
    [ pc               |-> "identify",
      remote_base_path |-> remote_base_path,
      files            |-> files,
      private_folders  |-> { },
      local            |-> LeftLocal(left),
      metadata         |-> LeftMetadata(left),
      at               |-> 1,
      log              |-> << >> ]

AutomadInit ==
    /\ catalog = CatChain
    /\ Constructed
    /\ results = << >>
    /\ main = NoMain
    /\ probe = NoProbe
    /\ drive = NoDrive
    /\ automad \in { AutomadStarted(files, remote_base_path, left) :
                        files \in Listings,
                        remote_base_path \in RemoteBases,
                        left \in Leftovers }

\* line 210
AutomadIdentify ==
    /\ automad.pc = "identify"
    /\ automad' = [ automad EXCEPT
                      !.pc = "sync",
                      !.private_folders =
                          identify_private_folders(automad.files,
                                                   automad.remote_base_path) ]
    /\ UNCHANGED << catalog, processed_boms, bom_data, parent_names, pc,
                    reference, stack, error, results, main, probe, drive >>

\* one pass of the loop of lines 215-274
AutomadSyncFile ==
    /\ automad.pc = "sync"
    /\ automad.at <= Len(automad.files)
    /\ \E file \in { automad.files[automad.at] } :
       \E relative_path \in { relative_to(file.path, automad.remote_base_path) } :
          IF in_private_folder(relative_path, automad.private_folders)
          THEN automad' = [ automad EXCEPT
                              !.at = @ + 1,
                              !.log = Append(@, [ path |-> file.path,
                                                  did |-> "private" ]) ]
          ELSE IF ~ needs_download(relative_path, file.size,
                                   automad.local, automad.metadata)
          THEN automad' = [ automad EXCEPT
                              !.at = @ + 1,
                              !.log = Append(@, [ path |-> file.path,
                                                  did |-> "skipped" ]) ]
          ELSE \E downloaded \in BOOLEAN :
                  automad' = [ automad EXCEPT
                      !.at = @ + 1,
                      !.local = DictPut(@, relative_path,
                                        IF downloaded THEN file.content
                                        ELSE EmptyFile),
                      !.metadata =
                          IF downloaded
                          THEN DictPut(@, relative_path,
                                       [ size |-> file.size,
                                         md5  |-> calculate_md5(file.content) ])
                          ELSE @,
                      !.log = Append(@, [ path |-> file.path,
                                          did |-> IF downloaded
                                                  THEN "downloaded"
                                                  ELSE "failed" ]) ]
    /\ UNCHANGED << catalog, processed_boms, bom_data, parent_names, pc,
                    reference, stack, error, results, main, probe, drive >>

\* line 276
AutomadReturn ==
    /\ automad.pc = "sync"
    /\ automad.at > Len(automad.files)
    /\ automad' = [ automad EXCEPT !.pc = "done" ]
    /\ UNCHANGED << catalog, processed_boms, bom_data, parent_names, pc,
                    reference, stack, error, results, main, probe, drive >>

AutomadNext ==
    \/ AutomadIdentify
    \/ AutomadSyncFile
    \/ AutomadReturn

AutomadSpec == AutomadInit /\ [][AutomadNext]_vars

\* ---------------------------------------------------------------------------
\* The Google Drive sync (google-drive/sync.py).  A directory is the sequence
\* of the folder names that lead to it from the target directory; a local
\* file is a directory and a name; a sidecar key is the path of a file below
\* the target directory.
\* ---------------------------------------------------------------------------

\* the runs of the sync a behaviour holds
MaxRuns == 2

\* the position of the last "." of a name, 0 when it has none
RECURSIVE last_dot(_)
last_dot(name) ==
    IF name = << >> THEN 0
    ELSE IF name[Len(name)] = "." THEN Len(name)
    ELSE last_dot(SubSeq(name, 1, Len(name) - 1))

\* Path(name).suffix: from the last ".", unless the name starts or ends with it
path_suffix(name) ==
    LET dot == last_dot(name)
    IN  IF dot > 1 /\ dot < Len(name) THEN SubSeq(name, dot, Len(name)) ELSE << >>

\* Path(name).stem
path_stem(name) == SubSeq(name, 1, Len(name) - Len(path_suffix(name)))

\* s[:n]
first_chars(s, n) == SubSeq(s, 1, IF Len(s) < n THEN Len(s) ELSE n)

\* pathlib's match of a name against f"{prefix}*{file_ext}" (neither part
\* holds a wildcard of its own)
glob_match(name, prefix, file_ext) ==
    /\ Len(name) >= Len(prefix) + Len(file_ext)
    /\ startswith(name, prefix)
    /\ endswith(name, file_ext)

\* Path.parent of a directory below the target directory
dir_parent(dir) == SubSeq(dir, 1, Len(dir) - 1)

\* the directories mkdir(parents=True) makes sure of
dir_and_parents(dir) == { SubSeq(dir, 1, n) : n \in 0..Len(dir) }

\* find_existing_file_by_prefix: the files list(search_dir.glob(pattern))
\* holds; the code takes the first of them, None when there is none
find_existing_file_by_prefix(output_dir, file_name, relative_path, local, dirs) ==
    LET search_dir == IF relative_path # << >> THEN output_dir \o relative_path
                      ELSE output_dir
        file_stem  == path_stem(file_name)
        prefix     == first_chars(file_stem, 5)
        file_ext   == path_suffix(file_name)
    IN  IF search_dir \notin dirs THEN { }
        ELSE IF Len(file_stem) < 5 THEN { }
        ELSE { f \in DOMAIN local :
                  /\ f.dir = search_dir
                  /\ glob_match(f.name, prefix, file_ext) }

\* the path a file is listed under: target_path / relative_path / file_name
full_file_path(file_info) ==
    [ dir |-> file_info.relative_path, name |-> file_info.name ]

\* download_file, lines 136-153: the paths it may write to.  The search for a
\* file with the same prefix starts at the parent of the output directory when
\* the file lies in a subfolder, and the relative path is added to it again.
download_paths(file_info, local, dirs) ==
    LET output_dir == file_info.relative_path
        existing == find_existing_file_by_prefix(
                        IF file_info.relative_path # << >>
                        THEN dir_parent(output_dir) ELSE output_dir,
                        file_info.name, file_info.relative_path, local,
                        dirs \cup dir_and_parents(output_dir))
    IN  IF existing # { } THEN existing
        ELSE { [ dir |-> output_dir, name |-> file_info.name ] }

\* the sidecar entry written after a download
drive_entry(file_info) ==
    [ md5 |-> file_info.md5Checksum, original_name |-> file_info.name ]

\* metadata['files'][key].get('md5') == file_info.get('md5Checksum')
md5_recorded(metadata, key, file_info) ==
    /\ key \in DOMAIN metadata
    /\ metadata[key].md5 = file_info.md5Checksum

\* the names of the remote files
NameOne == << "a", "b", "c", "d", "e", "1", ".", "p" >>
NameTwo == << "a", "b", "c", "d", "e", "2", ".", "p" >>
NameShort == << "a", "b", "c", "d", ".", "p" >>

\* the folders of the Drive folder the files may lie in
DriveFolders == { << >>, << "s" >>, << "s", "t" >> }

\* a listed file: name, folder, and the md5Checksum Drive gives for its content
DriveFile(name, relative_path, content) ==
    [ name |-> name, relative_path |-> relative_path, content |-> content,
      md5Checksum |-> calculate_md5(content) ]

\* the listings of one folder: each of the three files is there or not, the
\* first with one of two contents
DriveListings(folder) ==
    { SelectSeq(<< one, two, short >>, LAMBDA f : f # << >>) :
        one \in { << >>, DriveFile(NameOne, folder, Image),
                  DriveFile(NameOne, folder, OtherImage) },
        two \in { << >>, DriveFile(NameTwo, folder, Image) },
        short \in { << >>, DriveFile(NameShort, folder, Image) } }
    \ { << >> }

\* no run has been made: the target directory is empty
DriveInit ==
    /\ catalog = CatChain
    /\ Constructed
    /\ results = << >>
    /\ main = NoMain
    /\ probe = NoProbe
    /\ automad = NoAutomad
    /\ drive \in { [ pc |-> "idle", folder |-> folder, runs |-> 0,
                     files |-> << >>, at |-> 1,
                     local |-> << >>, dirs |-> { << >> }, metadata |-> << >>,
                     downloads |-> << >>, skipped |-> 0, failed |-> FALSE,
                     previous |-> << >> ] :
                   folder \in DriveFolders }

\* main, lines 236-279: a run starts with the sidecar the last run saved and
\* the listing of the Drive folder
DriveBegin(files) ==
    /\ drive.pc \in { "idle", "done" }
    /\ drive.runs < MaxRuns
    /\ drive' = [ drive EXCEPT
                    !.pc = "sync",
                    !.runs = @ + 1,
                    !.files = files,
                    !.at = 1,
                    !.downloads = << >>,
                    !.skipped = 0,
                    !.failed = FALSE,
                    !.previous = IF drive.pc = "done"
                                 THEN << [ files |-> drive.files,
                                           failed |-> drive.failed ] >>
                                 ELSE << >> ]
    /\ UNCHANGED << catalog, processed_boms, bom_data, parent_names, pc,
                    reference, stack, error, results, main, probe, automad >>

\* the state after download_file was called for a file and its sidecar entry
\* was written under key (when the download succeeded)
Downloaded_(file_info, key, output_path, ok) ==
    [ drive EXCEPT
        !.at = @ + 1,
        !.dirs = @ \cup dir_and_parents(file_info.relative_path),
        !.downloads = Append(@, [ file |-> full_file_path(file_info),
                                  path |-> output_path, ok |-> ok ]),
        !.failed = @ \/ ~ ok,
        !.local = IF ok THEN DictPut(@, output_path, file_info.content) ELSE @,
        !.metadata = IF ok THEN DictPut(@, key, drive_entry(file_info)) ELSE @ ]

Skipped_ ==
    [ drive EXCEPT !.at = @ + 1, !.skipped = @ + 1 ]

\* one pass of the loop of lines 281-355
DriveSyncFile ==
    /\ drive.pc = "sync"
    /\ drive.at <= Len(drive.files)
    /\ \E file_info \in { drive.files[drive.at] } :
       \E file_key \in { full_file_path(file_info) } :
          IF file_key \in DOMAIN drive.local
          THEN \* the file exists under its own name
               IF md5_recorded(drive.metadata, file_key, file_info)
               THEN drive' = Skipped_
               ELSE \E ok \in BOOLEAN :
                    \E output_path \in download_paths(file_info, drive.local,
                                                      drive.dirs) :
                       drive' = Downloaded_(file_info, file_key, output_path, ok)
          ELSE \E found \in { find_existing_file_by_prefix(
                                  << >>, file_info.name, file_info.relative_path,
                                  drive.local, drive.dirs) } :
               IF found # { }
               THEN \* a file with the same prefix exists
                    \E existing_file \in found :
                    \E ok \in BOOLEAN :
                    \E output_path \in download_paths(file_info, drive.local,
                                                      drive.dirs) :
                       drive' = Downloaded_(file_info, existing_file,
                                            output_path, ok)
               ELSE IF md5_recorded(drive.metadata, file_key, file_info)
               THEN drive' = Skipped_
               ELSE \E ok \in BOOLEAN :
                    \E output_path \in download_paths(file_info, drive.local,
                                                      drive.dirs) :
                       drive' = Downloaded_(file_info, file_key, output_path, ok)
    /\ UNCHANGED << catalog, processed_boms, bom_data, parent_names, pc,
                    reference, stack, error, results, main, probe, automad >>

\* lines 357-367: the sidecar is saved, the run is over
DriveEnd ==
    /\ drive.pc = "sync"
    /\ drive.at > Len(drive.files)
    /\ drive' = [ drive EXCEPT !.pc = "done" ]
    /\ UNCHANGED << catalog, processed_boms, bom_data, parent_names, pc,
                    reference, stack, error, results, main, probe, automad >>

DriveNext ==
    \/ \E files \in DriveListings(drive.folder) : DriveBegin(files)
    \/ DriveSyncFile
    \/ DriveEnd

DriveSpec == DriveInit /\ [][DriveNext]_vars

----------------------------------------------------------------------------
(* What the properties below speak about *)

Range(s) == { s[i] : i \in DOMAIN s }

ProductIds == { p.id : p \in Range(catalog.product_product) }

\* the active BOMs the catalog holds for product p, by product or by template
ActiveBoms(p) ==
    { b \in Range(catalog.mrp_bom) :
        /\ b.active
        /\ \/ b.product_id = p
           \/ \E q \in Range(catalog.product_product) :
                  /\ q.id = p
                  /\ q.product_tmpl_id # 0
                  /\ b.product_tmpl_id = q.product_tmpl_id
                  /\ b.product_id = 0 }

\* the products the lines of product p's active BOMs name
Components(p) ==
    { l.product_id : l \in { x \in Range(catalog.mrp_bom_line) :
                                \E b \in ActiveBoms(p) : x.bom_id = b.id } } \ {0}

RECURSIVE Closure(_, _)
Closure(frontier, seen) ==
    LET more == (UNION { Components(p) : p \in frontier }) \ seen
    IN  IF more = {} THEN seen ELSE Closure(more, seen \cup more)

\* the products below p in the BOM graph
Below(p) == Closure({p}, {})

OnCycle(p) == p \in Below(p)

Acyclic == \A p \in ProductIds : ~OnCycle(p)

\* every line that names a product names one the catalog holds
AllLinesResolve ==
    \A l \in Range(catalog.mrp_bom_line) :
        l.product_id # 0 => product_by_id(l.product_id) # <<>>

\* the product the running fetch started at
RootProduct == get_product_by_reference(reference)

\* name holds a filter keyword, whatever the case of its letters
NameHasKeyword(name) ==
    \E k \in Range(filter_keywords) :
        \E i \in 1..Len(name) :
            /\ i + Len(k) - 1 <= Len(name)
            /\ \A j \in 1..Len(k) : lower_char(name[i + j - 1]) = k[j]

Records(ref) ==
    { i \in DOMAIN bom_data : bom_data[i].component_reference = ref }

\* the line the innermost get_bom_lines call is about to process
AtLine ==
    /\ pc = "walk"
    /\ stack # <<>>
    /\ stack[Len(stack)].entered
    /\ stack[Len(stack)].pos <= Len(bom_lines_of(stack[Len(stack)].bom_id))

CurrentLine == bom_lines_of(stack[Len(stack)].bom_id)[stack[Len(stack)].pos]

\* ... and it names a product the catalog holds
AtComponent ==
    /\ AtLine
    /\ CurrentLine.product_id # 0
    /\ product_by_id(CurrentLine.product_id) # <<>>

CurrentProduct == product_by_id(CurrentLine.product_id)[1]

\* the record a step has just put at the end of the output
NewRecord == bom_data'[Len(bom_data')]

----------------------------------------------------------------------------
(* C1: cycle law *)

\* C1: when the fetch starts at a product on a cycle of the BOM graph, it ends
\* without running into the recursion limit, and the output holds at most one
\* record for each product on the cycle.
C1_CycleLaw ==
    (pc \in {"walk", "returned", "raised"} /\ RootProduct # <<>> /\ OnCycle(RootProduct[1].id))
        => /\ error # "RecursionError"
           /\ \A p \in Range(catalog.product_product) :
                  OnCycle(p.id) => Cardinality(Records(p.default_code)) <= 1

----------------------------------------------------------------------------
(* C2: termination on acyclic graphs *)

\* C2: in an acyclic catalog whose lines all resolve, a fetch whose product
\* and BOM resolved goes on to return its list.
C2_AcyclicTerminates ==
    (pc = "walk" /\ Acyclic /\ AllLinesResolve)
        ~> (/\ pc = "returned"
            /\ results[Len(results)].outcome = "returned"
            /\ results[Len(results)].records = bom_data)

\* a fetch in an acyclic catalog has returned records of three levels
C2_Witness ==
    /\ pc = "returned"
    /\ Acyclic /\ AllLinesResolve
    /\ \E i \in DOMAIN bom_data : bom_data[i].level = 2

----------------------------------------------------------------------------
(* C3: filtered components are leaves *)

\* C3: processing a line whose component is filtered emits no record, looks
\* into no BOM and expands none: the output and the call stack stay as they are
\* but for the loop moving on.
C3_FilteredIsLeaf ==
    [][ (AtComponent /\ NameHasKeyword(final_name(CurrentProduct)))
          => (bom_data' = bom_data /\ Len(stack') <= Len(stack) /\ pc' = "walk") ]_vars

----------------------------------------------------------------------------
(* C4: filter law *)

\* C4 (as claimed): no record of a returned list, the level-0 record included,
\* has a name that holds a filter keyword.
C4_FilterLaw_AllRecords ==
    \A r \in Range(results) :
        \A rec \in Range(r.records) : ~NameHasKeyword(rec.component_name)

\* C4 (amended): no record of level 1 or more, in the output being built and
\* in every returned list, has a name that holds a filter keyword (the level-0
\* record carries the product's name whatever it is).
C4_FilterLaw ==
    /\ \A rec \in Range(bom_data) :
           rec.level >= 1 => ~NameHasKeyword(rec.component_name)
    /\ \A r \in Range(results) :
           \A rec \in Range(r.records) :
               rec.level >= 1 => ~NameHasKeyword(rec.component_name)

\* a list was returned after the walk expanded a BOM one of whose lines names
\* a keyword-named product
C4_Witness ==
    /\ pc = "returned"
    /\ Len(bom_data) >= 2
    /\ \E l \in Range(catalog.mrp_bom_line) :
           /\ l.bom_id \in processed_boms
           /\ product_by_id(l.product_id) # <<>>
           /\ NameHasKeyword(final_name(product_by_id(l.product_id)[1]))

----------------------------------------------------------------------------
(* C5: quantity law *)

\* the bracket table of the quantity adjustment
SpecAdjust(q) ==
    LET cut == IF QGeInt(q, 100) THEN 10
               ELSE IF QGeInt(q, 50) THEN 4
               ELSE IF QGeInt(q, 11) THEN 2
               ELSE 0
        less == QSubInt(q, cut)
    IN  IF less[1] < 0 THEN <<0, 1>> ELSE less

\* the product of the line quantities that lead from the root BOM to the BOM
\* of the k-th get_bom_lines call: each call was made for the line before the
\* one its caller now stands at
RECURSIVE PathQuantity(_)
PathQuantity(k) ==
    IF k = 1 THEN <<1, 1>>
    ELSE QMul(PathQuantity(k - 1),
              bom_lines_of(stack[k - 1].bom_id)[stack[k - 1].pos - 1].product_qty)

\* the <<product, quantity>> of every line at most n BOMs below bom_id, the
\* quantity being q times the line quantities on the way
RECURSIVE LinesBelow(_, _, _)
LinesBelow(bom_id, q, n) ==
    IF n = 0 THEN {}
    ELSE UNION { LET lq == QMul(q, l.product_qty)
                     cb == get_bom_for_product(l.product_id)
                 IN  { << l.product_id, lq >> }
                     \cup (IF cb # <<>> THEN LinesBelow(cb[1].id, lq, n - 1) ELSE {})
                 : l \in { x \in Range(bom_lines_of(bom_id)) : x.product_id # 0 } }

----------------------------------------------------------------------------
(* C6: collapse law *)

\* what the collapse lookahead returns for the line the walk stands at
CollapseResult ==
    get_collapsed_single_child(
        get_bom_for_product(CurrentLine.product_id)[1].id,
        QMul(CurrentLine.product_qty, stack[Len(stack)].parent_qty),
        stack[Len(stack)].level, Len(stack) + 1)

\* the names the catalog gives a product: its own and its template's, each
\* with and without a trailing ' (copy)'
NamesOf(p) ==
    LET given == { p.name } \cup
                 { t.name : t \in { x \in Range(catalog.product_template) :
                                      x.id = p.product_tmpl_id } }
    IN  given \cup { strip_copy(n) : n \in given }

\* the products whose BOM the innermost get_bom_lines call is expanding
ExpandedParents ==
    { p \in Range(catalog.product_product) :
        \E b \in ActiveBoms(p.id) : b.id = stack[Len(stack)].bom_id }

\* C6: when the component of the line being processed has an active BOM and
\* the collapse lookahead returns a result for it, the step adds exactly one
\* record to the output, the collapse result, the intermediate component
\* itself does not appear, and the record's parent reference and parent name
\* are those of the product whose BOM is being expanded.
C6_CollapseLaw ==
    [][ (/\ AtComponent
         /\ get_bom_for_product(CurrentLine.product_id) # <<>>
         /\ CollapseResult.kind = "component")
          => /\ Len(bom_data') = Len(bom_data) + 1
             /\ SubSeq(bom_data', 1, Len(bom_data)) = bom_data
             /\ NewRecord.component_reference = CollapseResult.component_reference
             /\ NewRecord.parent_bom_reference = stack[Len(stack)].parent_reference
             /\ \E p \in ExpandedParents :
                    NewRecord.parent_bom_name \in NamesOf(p) ]_vars

----------------------------------------------------------------------------
(* C7: pre-order *)

\* the reference a record's children name as their parent
RecordKey(rec) ==
    IF rec.component_reference # <<>> THEN rec.component_reference
    ELSE rec.component_name

\* C7: in every returned list, each record of level 1 or more comes after a
\* record of smaller level whose reference (or name, when it has no
\* reference) is the record's parent reference.
C7_PreOrder ==
    \A r \in Range(results) :
        \A i \in DOMAIN r.records :
            r.records[i].level >= 1 =>
                \E j \in 1..(i - 1) :
                    /\ r.records[j].level < r.records[i].level
                    /\ RecordKey(r.records[j]) = r.records[i].parent_bom_reference

----------------------------------------------------------------------------
(* C8: idempotence *)

\* C8: two fetches in a row for the same reference on the same instance that
\* both return give the same records, field by field.
C8_SameFetchTwice ==
    \A i \in 1..(Len(results) - 1) :
        (/\ results[i].reference = results[i + 1].reference
         /\ results[i].outcome = "returned"
         /\ results[i + 1].outcome = "returned")
            => results[i].records = results[i + 1].records

----------------------------------------------------------------------------
(* C9: fresh traversal state *)

\* C9: when a fetch is about to look its product up, the set of processed
\* BOMs, the output list and the parent-name cache are all empty.
C9_FreshState ==
    pc = "lookup" =>
        /\ processed_boms = {}
        /\ bom_data = <<>>
        /\ DOMAIN parent_names = {}

----------------------------------------------------------------------------
(* C10: the result depends on the reference and the catalog only *)

\* C10: a fetch for a reference that comes after fetches for other references
\* only returns the records the first fetch of the instance, made for that same
\* reference on fresh state, returned.
C10_HistoryIndependent ==
    \A j \in 3..Len(results) :
        (/\ results[j].reference = results[1].reference
         /\ results[1].outcome = "returned"
         /\ results[j].outcome = "returned"
         /\ \A k \in 2..(j - 1) : results[k].reference # results[1].reference)
            => results[j].records = results[1].records

----------------------------------------------------------------------------
(* C11: a fetch that cannot resolve its product or BOM produces nothing *)

\* a product carries the reference, or a template does whose first variant
\* the catalog holds
ReferenceMatches(ref) ==
    \/ \E p \in Range(catalog.product_product) : p.default_code = ref
    \/ \E t \in Range(catalog.product_template) :
          /\ t.default_code = ref
          /\ t.product_variant_ids # <<>>
          /\ \E p \in Range(catalog.product_product) : p.id = t.product_variant_ids[1]

\* the reference resolves to a product that has an active BOM
ReferenceHasBom(ref) ==
    \/ \E p \in Range(catalog.product_product) :
          p.default_code = ref /\ ActiveBoms(p.id) # {}
    \/ /\ ~\E p \in Range(catalog.product_product) : p.default_code = ref
       /\ \E t \in Range(catalog.product_template) :
             /\ t.default_code = ref
             /\ t.product_variant_ids # <<>>
             /\ ActiveBoms(t.product_variant_ids[1]) # {}

\* C11: once main's fetch is past its lookups, if no product matches the
\* reference or the product has no active BOM then the fetch has raised
\* product-not-found or BOM-not-found, the output holds no record, no BOM was
\* entered (so no BOM line was read), and main has called no export and
\* written no CSV file.
C11_FailsBeforeOutput ==
    (/\ main.pc \in {"fetch", "done"}
     /\ pc \notin {"idle", "lookup"}
     /\ ~(ReferenceMatches(reference) /\ ReferenceHasBom(reference)))
        => /\ pc = "raised"
           /\ error = (IF ReferenceMatches(reference) THEN "BomNotFound"
                       ELSE "ProductNotFound")
           /\ bom_data = <<>>
           /\ processed_boms = {}
           /\ stack = <<>>
           /\ main.exported = <<>>
           /\ main.csv = <<>>

\* main has ended after a fetch for a product that exists but has no BOM
C11_Witness ==
    /\ main.pc = "done"
    /\ error = "BomNotFound"
    /\ ReferenceMatches(reference)
    /\ ~ReferenceHasBom(reference)

----------------------------------------------------------------------------
(* C12: a failed fetch leaves earlier results alone *)

\* C12: after a call that failed with product-not-found or BOM-not-found,
\* every list an earlier call on the instance returned still holds the records
\* it held when it was returned.
C12_FailedFetchFrame ==
    (pc = "raised" /\ error \in {"ProductNotFound", "BomNotFound"})
        => \A i \in DOMAIN results :
               results[i].outcome = "returned"
                   => ReturnedList(i) = results[i].records

----------------------------------------------------------------------------
(* C13: a line whose product the catalog does not hold *)

\* C13: when get_bom_lines stands at a line that names a product id the
\* catalog has no record for, the pass over that line raises nothing and emits
\* nothing, and the loop moves on to the next sibling line.
C13_MissingProductSkipped ==
    [][ (/\ AtLine
         /\ CurrentLine.product_id # 0
         /\ ~\E p \in Range(catalog.product_product) : p.id = CurrentLine.product_id)
          => /\ pc' = "walk"
             /\ error' = "none"
             /\ bom_data' = bom_data
             /\ stack' = [stack EXCEPT ![Len(stack)].pos = @ + 1] ]_vars

----------------------------------------------------------------------------
(* C14: level is depth *)

\* C14: in an acyclic catalog, a record a pass emits for the line's own
\* component (not a collapsed one) has as level the number of get_bom_lines
\* calls active at that moment, the depth of the line's BOM below the root:
\* 1 for the lines of the root BOM, n + 1 for the lines of a BOM expanded from
\* a component at depth n.
C14_LevelIsDepth ==
    [][ (/\ Acyclic
         /\ AtComponent
         /\ Len(bom_data') = Len(bom_data) + 1
         /\ NewRecord.component_reference = CurrentProduct.default_code)
          => NewRecord.level = Len(stack) ]_vars

\* a fetch of the branching catalog has returned a record two BOMs below the
\* root, emitted under the component B that was expanded, not collapsed
C14_Witness ==
    /\ pc = "returned"
    /\ catalog = CatBranch
    /\ \E i \in DOMAIN bom_data :
           /\ bom_data[i].level = 2
           /\ bom_data[i].parent_bom_reference = <<"B">>
    /\ \E i \in DOMAIN bom_data :
           /\ bom_data[i].level = 1
           /\ bom_data[i].component_reference = <<"B">>
           /\ bom_data[i].has_child_bom

----------------------------------------------------------------------------
(* C15: which BOM a product gets *)

\* the active BOMs tied to variant p
VariantBoms(p) ==
    { b \in Range(catalog.mrp_bom) : b.active /\ b.product_id = p }

\* the active BOMs of p's template whose variant link is unset or p
TemplateBoms(p) ==
    { b \in Range(catalog.mrp_bom) :
        /\ b.active
        /\ b.product_id \in {0, p}
        /\ \E q \in Range(catalog.product_product) :
               q.id = p /\ q.product_tmpl_id # 0 /\ b.product_tmpl_id = q.product_tmpl_id }

\* C15: what get_bom_for_product(p) returned is never an inactive BOM; it is
\* an active BOM tied to variant p when there is one, otherwise an active BOM
\* of p's template whose variant link is unset or p when there is one, and
\* None when there is neither.
C15_BomForProduct ==
    probe.call = "get_bom_for_product" =>
        /\ probe.value # <<>> => probe.value[1].active
        /\ IF VariantBoms(probe.product_id) # {}
           THEN probe.value # <<>> /\ probe.value[1] \in VariantBoms(probe.product_id)
           ELSE IF TemplateBoms(probe.product_id) # {}
           THEN probe.value # <<>> /\ probe.value[1] \in TemplateBoms(probe.product_id)
           ELSE probe.value = <<>>

\* the call fell back to a template-wide BOM although the table's first row
\* is an inactive BOM tied to the variant asked about
C15_Witness ==
    /\ probe.call = "get_bom_for_product"
    /\ probe.value # <<>>
    /\ probe.value[1].product_id = 0
    /\ catalog.mrp_bom[1].product_id = probe.product_id
    /\ ~catalog.mrp_bom[1].active

----------------------------------------------------------------------------
(* C16: main's exit status *)

\* the run was started without any API key: none on the command line or in
\* the environment, none in a credentials file
NoApiKey ==
    ~main.args.key_given /\ main.args.credentials # "with_key"

\* C16: when main has returned, it returned non-zero if the credentials file
\* was missing, no API key was given, the server refused or could not be
\* reached, the product or its BOM was not found, or the fetch raised anything;
\* and it returned 0 only after the fetch returned and export_to_csv was called
\* on the list the fetch returned.
C16_ExitStatus ==
    main.pc = "done" =>
        /\ (\/ main.args.credentials = "missing"
            \/ NoApiKey
            \/ main.args.server # "ok"
            \/ ~ReferenceMatches(main.args.reference)
            \/ ~ReferenceHasBom(main.args.reference)
            \/ pc = "raised"
            \/ error # "none") => (main.exit # <<>> /\ main.exit[1] # 0)
        /\ main.exit = << 0 >> =>
              /\ pc = "returned"
              /\ Len(results) = 1
              /\ results[1].outcome = "returned"
              /\ main.exported = << results[1].records >>

\* main has returned 0 with a CSV file of at least two rows, the key having
\* come from the credentials file
C16_Witness ==
    /\ main.pc = "done"
    /\ main.exit = << 0 >>
    /\ main.args.credentials = "with_key"
    /\ ~main.args.key_given
    /\ main.csv # <<>>
    /\ Len(main.csv[1]) >= 2

\* ---------------------------------------------------------------------------
\* C17: private folders of the Automad sync
\* ---------------------------------------------------------------------------

\* the folder of a listed file: the parts of its path without the file name
FolderOf(path) ==
    LET parts == path_parts(path, << >>, << >>)
    IN  SubSeq(parts, 1, Len(parts) - 1)

\* the page carries the marker, as the inputs write it
MarkedPrivate(file) ==
    /\ endswith(file.path, << ".", "t", "x", "t" >>)
    /\ \E n \in DOMAIN file.content :
          file.content[n] \in { PrivateLine, PrivateLineLoud }

\* the file lies in the folder of a marked page or below it
InPrivateSubtree(file, files) ==
    \E n \in DOMAIN files :
        /\ MarkedPrivate(files[n])
        /\ startswith(FolderOf(file.path), FolderOf(files[n].path))

ListedAt(path) ==
    CHOOSE file \in Range(automad.files) : file.path = path

Downloaded == { entry.path : entry \in { e \in Range(automad.log) :
                                            e.did = "downloaded" } }

\* C17: no file in the folder of a page marked private: on, or below that
\* folder, is downloaded, also when the page sits in the sync base folder.
C17_PrivateNotDownloaded ==
    automad.pc # "off" =>
        \A path \in Downloaded :
            ~ InPrivateSubtree(ListedAt(path), automad.files)

\* the same with the marked page below the base folder only
C17_BelowBaseOnly ==
    (automad.pc # "off" /\ ~ MarkedPrivate(ListedAt(BasePage))) =>
        \A path \in Downloaded :
            ~ InPrivateSubtree(ListedAt(path), automad.files)

\* a run with a marked page below the base folder has passed over its files
C17_BelowBaseSkipped ==
    /\ automad.pc = "done"
    /\ ~ MarkedPrivate(ListedAt(BasePage))
    /\ MarkedPrivate(ListedAt(SubPage))
    /\ SiblingImage \in Downloaded
    /\ DeepImage \notin Downloaded

\* ---------------------------------------------------------------------------
\* C18: skip, download and the sidecar
\* ---------------------------------------------------------------------------

\* the entry of a path in a sidecar, None when it has none
EntryOf(metadata, path) ==
    IF path \in DOMAIN metadata THEN << metadata[path] >> ELSE << >>

\* the local copy is the one the sidecar describes, and it has the size the
\* server lists
Identical(file, relative_path) ==
    /\ relative_path \in DOMAIN automad.local
    /\ relative_path \in DOMAIN automad.metadata
    /\ automad.metadata[relative_path].size = file.size
    /\ automad.metadata[relative_path].md5 # << >>
    /\ automad.metadata[relative_path].md5
           = calculate_md5(automad.local[relative_path])

\* the loop passes over one file
SyncPass ==
    /\ automad.pc = "sync"
    /\ automad'.pc = "sync"
    /\ automad'.at = automad.at + 1

\* C18: a file outside the private folders is skipped exactly when the local
\* copy exists and the sidecar entry of its path has the listed size and a
\* non-empty md5 equal to the md5 of the local copy; otherwise it is
\* downloaded; a sidecar entry changes only for the path of a successful
\* download, and a failed download leaves the sidecar as it was.
C18_SkipRule ==
    [][ SyncPass =>
          LET file == automad.files[automad.at]
              relative_path == relative_to(file.path, automad.remote_base_path)
              did == automad'.log[Len(automad'.log)].did
          IN  ~ InPrivateSubtree(file, automad.files) =>
                /\ Len(automad'.log) = Len(automad.log) + 1
                /\ Identical(file, relative_path) <=> did = "skipped"
                /\ ~ Identical(file, relative_path)
                       <=> did \in { "downloaded", "failed" }
                /\ did = "downloaded" =>
                      /\ automad'.local[relative_path] = file.content
                      /\ EntryOf(automad'.metadata, relative_path)
                           = << [ size |-> file.size,
                                  md5  |-> calculate_md5(file.content) ] >>
                /\ did # "downloaded" => automad'.metadata = automad.metadata
                /\ \A path \in DOMAIN automad.metadata \cup DOMAIN automad'.metadata :
                      path # relative_path =>
                          EntryOf(automad'.metadata, path)
                              = EntryOf(automad.metadata, path)
      ]_vars

LogOf(path) ==
    { entry.did : entry \in { e \in Range(automad.log) : e.path = path } }

\* a run that skipped one public file with a stale-looking but matching copy,
\* downloaded another and failed on a third
C18_Witness ==
    /\ automad.pc = "done"
    /\ ~ MarkedPrivate(ListedAt(BasePage))
    /\ ~ MarkedPrivate(ListedAt(SubPage))
    /\ LogOf(BaseImage) = { "skipped" }
    /\ LogOf(SubImage) = { "downloaded" }
    /\ LogOf(DeepImage) = { "failed" }
    /\ << "s", "/", "t", "/", "b", ".", "p", "n", "g" >>
           \notin DOMAIN automad.metadata

\* ---------------------------------------------------------------------------
\* C19: what the collapse lookahead returns
\* ---------------------------------------------------------------------------

\* the lines of a BOM that survive: the line names a product, the catalog
\* holds the product, and the product's name holds no filter keyword
SurvivingLines(bom_id) ==
    { n \in DOMAIN catalog.mrp_bom_line :
        /\ catalog.mrp_bom_line[n].bom_id = bom_id
        /\ \E p \in Range(catalog.product_product) :
              /\ p.id = catalog.mrp_bom_line[n].product_id
              /\ ~ NameHasKeyword(final_name(p)) }

\* the lookahead was called on a BOM and returned
CollapseReturned ==
    /\ probe.call = "get_collapsed_single_child"
    /\ probe.value.kind # "RecursionError"

\* C19: the lookahead returns None exactly when the BOM has zero or at least
\* two surviving components; a returned component has has_child_bom false
\* exactly when its product has no active BOM, and true exactly when its
\* product has an active BOM whose own lookahead returns None.
C19_LookaheadResult ==
    CollapseReturned =>
        /\ probe.value = None <=> Cardinality(SurvivingLines(probe.bom_id)) # 1
        /\ probe.value # None =>
              LET c == probe.value
                  child_bom == get_bom_for_product(c.product_id)
              IN  /\ c.kind = "component"
                  /\ c.has_child_bom \in BOOLEAN
                  /\ ~ c.has_child_bom <=> ActiveBoms(c.product_id) = { }
                  /\ c.has_child_bom <=>
                        /\ ActiveBoms(c.product_id) # { }
                        /\ child_bom # << >>
                        /\ get_collapsed_single_child(child_bom[1].id, c.quantity,
                                                      c.level + 1, 1) = None

\* the lookahead went down a chain and stopped at a component whose BOM does
\* not collapse
C19_Witness ==
    /\ CollapseReturned
    /\ probe.value # None
    /\ probe.value.has_child_bom
    /\ probe.value.level > probe.level

\* the lookahead returned None for a BOM with lines, none of which survives
C19_WitnessNone ==
    /\ CollapseReturned
    /\ probe.value = None
    /\ SurvivingLines(probe.bom_id) = { }
    /\ \E l \in Range(catalog.mrp_bom_line) : l.bom_id = probe.bom_id

\* ---------------------------------------------------------------------------
\* C20: a chain of single-child BOMs collapses to its last component
\* ---------------------------------------------------------------------------

\* the one active BOM of a product that has one
BomOf(p) == CHOOSE b \in ActiveBoms(p) : TRUE

\* where the chain that starts at product p ends: << >> when it does not end
\* within n BOMs, else the last product, the product of the line quantities
\* down to it (q is the product down to p), and the number of BOMs elided
RECURSIVE ChainEnd(_, _, _, _)
ChainEnd(p, q, k, n) ==
    IF ActiveBoms(p) = { } \/ Cardinality(SurvivingLines(BomOf(p).id)) # 1
    THEN << [ product_id |-> p, quantity |-> q, elided |-> k ] >>
    ELSE IF n = 0 THEN << >>
    ELSE LET l == catalog.mrp_bom_line[
                      CHOOSE m \in SurvivingLines(BomOf(p).id) : TRUE]
         IN  ChainEnd(l.product_id, QMul(q, l.product_qty), k + 1, n - 1)

\* the chain that starts at the line being processed: the parent multiplier
\* times the line's quantity goes in
CurrentChain ==
    ChainEnd(CurrentLine.product_id,
             QMul(stack[Len(stack)].parent_qty, CurrentLine.product_qty),
             0, Len(catalog.mrp_bom))

\* the line being processed survives and starts a chain of at least one
\* single-child BOM that ends
AtChain ==
    /\ AtComponent
    /\ ~ NameHasKeyword(final_name(CurrentProduct))
    /\ \A b \in ActiveBoms(CurrentLine.product_id) : b = BomOf(CurrentLine.product_id)
    /\ CurrentChain # << >>
    /\ CurrentChain[1].elided >= 1

\* the records of the example: ROOT-1 is A, MID-1 is B, LEAF-1 is C
ExampleReturns(records) ==
    /\ Len(records) = 2
    /\ records[1].level = 0
    /\ records[1].component_reference = << "A" >>
    /\ records[1].component_quantity = 100
    /\ records[2].level = 1
    /\ records[2].component_reference = << "C" >>
    /\ records[2].component_quantity = 600
    /\ records[2].parent_bom_reference = << "A" >>
    /\ records[2].has_child_bom = FALSE

ExampleFetched(i) ==
    /\ catalog = CatExample
    /\ results[i].reference = << "A" >>

\* the step that processes the first line of a chain emits one record, the
\* chain's last component with the adjusted product of the quantities
C20_ChainStep ==
    AtChain =>
        /\ Len(bom_data') = Len(bom_data) + 1
        /\ SubSeq(bom_data', 1, Len(bom_data)) = bom_data
        /\ NewRecord.component_reference
               = product_by_id(CurrentChain[1].product_id)[1].default_code
        /\ NewRecord.component_quantity
               = format_2f(SpecAdjust(CurrentChain[1].quantity))

\* C20: for a chain root -> M1 -> ... -> Mk -> L in which every Mi's BOM has
\* exactly one surviving line and L has no BOM or a BOM that does not
\* collapse, the one record emitted for the chain is L with the quantity
\* adjust(parent multiplier times the line quantities of the chain); the
\* fetch of ROOT-1 -> MID-1 (x2) -> LEAF-1 (x3) returns exactly the root
\* record and LEAF-1 at level 1 with quantity 6.00, parent ROOT-1 and
\* has_child_bom false.
C20_ChainCollapse ==
    /\ [][ C20_ChainStep ]_vars
    /\ [] \A i \in DOMAIN results :
              ExampleFetched(i) =>
                  /\ results[i].outcome = "returned"
                  /\ ExampleReturns(results[i].records)

\* the example has been fetched and has returned
C20_Witness ==
    \E i \in DOMAIN results :
        /\ ExampleFetched(i)
        /\ results[i].outcome = "returned"
        /\ Len(results[i].records) = 2

\* a chain of two elided BOMs that ends at a component with a branching BOM
\* has just been emitted
C20_WitnessDeep ==
    /\ catalog = CatDeepBottomOut
    /\ Len(bom_data) = 2
    /\ bom_data[2].component_reference = << "C" >>
    /\ bom_data[2].has_child_bom

\* ---------------------------------------------------------------------------
\* C21: the level of a collapsed record
\* ---------------------------------------------------------------------------

\* C21: the record that replaces a line at level n after k >= 1 single-child
\* components were elided has level n + k - 1.
C21_CollapsedLevel ==
    [][ AtChain =>
          /\ Len(bom_data') = Len(bom_data) + 1
          /\ NewRecord.level
                = stack[Len(stack)].level + CurrentChain[1].elided - 1 ]_vars

\* a record lies more than one level below the record its parent reference
\* names
C21_Witness ==
    \E i \in DOMAIN bom_data, j \in DOMAIN bom_data :
        /\ j < i
        /\ bom_data[j].component_reference = bom_data[i].parent_bom_reference
        /\ \A m \in DOMAIN bom_data :
              bom_data[m].component_reference = bom_data[i].parent_bom_reference
                  => m = j
        /\ bom_data[i].level > bom_data[j].level + 1

\* ---------------------------------------------------------------------------
\* C22: the lookahead marks nothing
\* ---------------------------------------------------------------------------

\* the BOMs a lookahead that starts at bom_id looks into: bom_id, and the BOM
\* of its one surviving component while there is exactly one
RECURSIVE InspectedBoms(_, _)
InspectedBoms(bom_id, n) ==
    LET lines == SurvivingLines(bom_id)
        child == catalog.mrp_bom_line[CHOOSE m \in lines : TRUE].product_id
    IN  IF n = 0 \/ Cardinality(lines) # 1 \/ ActiveBoms(child) = { }
        THEN { bom_id }
        ELSE { bom_id } \cup InspectedBoms(BomOf(child).id, n - 1)

\* the line being processed has a component with a BOM, and the lookahead on
\* that BOM returns
AtLookahead ==
    /\ AtComponent
    /\ ActiveBoms(CurrentLine.product_id) # { }
    /\ CollapseResult.kind # "RecursionError"

\* get_bom_lines has just been called on bom_id
Called(bom_id) ==
    /\ stack' # << >>
    /\ stack'[Len(stack')].bom_id = bom_id
    /\ ~ stack'[Len(stack')].entered
    /\ Len(stack') = Len(stack) + 1

\* C22: a step of get_bom_lines that runs the lookahead leaves processed_boms
\* as it was, and get_bom_lines is called on every BOM the lookahead looked
\* into and found not to collapse.
C22_LookaheadFrame ==
    [][ AtLookahead =>
          /\ processed_boms' = processed_boms
          /\ \A b \in InspectedBoms(BomOf(CurrentLine.product_id).id,
                                    Len(catalog.mrp_bom)) :
                Cardinality(SurvivingLines(b)) # 1 => Called(b) ]_vars

\* the same for the BOM get_bom_lines hands to the lookahead, leaving out the
\* BOMs the lookahead goes on to
C22_DirectBom ==
    [][ AtLookahead =>
          /\ processed_boms' = processed_boms
          /\ LET b == BomOf(CurrentLine.product_id).id
             IN  Cardinality(SurvivingLines(b)) # 1 => Called(b) ]_vars

\* ---------------------------------------------------------------------------
\* C23: the cycle guard in an acyclic graph
\* ---------------------------------------------------------------------------

\* get_bom_lines has been called and stands at its cycle guard
AtGuard ==
    /\ pc = "walk"
    /\ stack # << >>
    /\ ~ stack[Len(stack)].entered

\* C23: in an acyclic BOM graph the cycle guard never fires: whenever
\* get_bom_lines is called, its BOM is not among the processed ones, so a
\* sub-assembly that occurs twice is expanded under each occurrence.
C23_GuardNeverFires ==
    (Acyclic /\ AtGuard) => stack[Len(stack)].bom_id \notin processed_boms

\* ---------------------------------------------------------------------------
\* C24: one parent name per parent reference
\* ---------------------------------------------------------------------------

\* the products that carry an internal reference
ProductsWithCode(ref) ==
    { p \in Range(catalog.product_product) : p.default_code = ref }

\* the parent names of the records of a list agree per parent reference and
\* resolve the reference
ParentNamesResolved(records) ==
    \A m \in DOMAIN records :
        records[m].level > 0 =>
            /\ \A n \in DOMAIN records :
                  records[n].parent_bom_reference = records[m].parent_bom_reference
                      => records[n].parent_bom_name = records[m].parent_bom_name
            /\ IF ProductsWithCode(records[m].parent_bom_reference) = { }
               THEN records[m].parent_bom_name = records[m].parent_bom_reference
               ELSE \E p \in ProductsWithCode(records[m].parent_bom_reference) :
                       records[m].parent_bom_name \in NamesOf(p)

\* C24: in every returned list the records with the same parent_bom_reference
\* carry the same parent_bom_name, which is the name of the product with that
\* internal reference, or the reference itself when there is no such product.
C24_ParentNames ==
    \A i \in DOMAIN results :
        results[i].outcome = "returned" => ParentNamesResolved(results[i].records)

\* no product whose name holds a filter keyword has an active BOM
NoFilteredAssembly ==
    \A p \in Range(catalog.product_product) :
        NameHasKeyword(final_name(p)) => ActiveBoms(p.id) = { }

\* the same in catalogs where no filtered product has a BOM
C24_WithoutFilteredAssemblies ==
    \A i \in DOMAIN results :
        (NoFilteredAssembly /\ results[i].outcome = "returned")
            => ParentNamesResolved(results[i].records)

\* ---------------------------------------------------------------------------
\* C25: the parent reference of the records below a component
\* ---------------------------------------------------------------------------

\* the product of the component whose BOM the innermost get_bom_lines call
\* expands: the call was made for the line before the one its caller stands at
ExpandedComponent ==
    product_by_id(
        bom_lines_of(stack[Len(stack) - 1].bom_id)
            [stack[Len(stack) - 1].pos - 1].product_id)[1]

\* a step of a get_bom_lines call made for a component emits a record
EmitsBelowComponent ==
    /\ AtComponent
    /\ Len(stack) >= 2
    /\ Len(bom_data') = Len(bom_data) + 1

\* C25: every record emitted while the BOM of a non-collapsed component is
\* expanded has as parent_bom_reference the component's reference when that is
\* not empty, and the component's name when it is.
C25_ParentReference ==
    [][ EmitsBelowComponent =>
          NewRecord.parent_bom_reference
              = IF ExpandedComponent.default_code # << >>
                THEN ExpandedComponent.default_code
                ELSE final_name(ExpandedComponent) ]_vars

\* a record below the sub-assembly without internal reference is in the output
C25_Witness ==
    \E m \in DOMAIN bom_data :
        /\ bom_data[m].level = 2
        /\ bom_data[m].parent_bom_reference = << "N", "u", "t" >>
        /\ \E n \in 1..(m - 1) :
              /\ bom_data[n].component_reference = << >>
              /\ bom_data[n].component_name = << "N", "u", "t" >>
              /\ bom_data[n].has_child_bom

\* ---------------------------------------------------------------------------
\* C26: has_child_bom
\* ---------------------------------------------------------------------------

\* the products a record can stand for: those with its reference and name
ProductsOf(record) ==
    { p \in Range(catalog.product_product) :
        /\ p.default_code = record.component_reference
        /\ final_name(p) = record.component_name }

\* C26: in every returned list a record other than the root has has_child_bom
\* true exactly when its component's product has an active BOM.
C26_HasChildBom ==
    \A i \in DOMAIN results :
        results[i].outcome = "returned" =>
            \A m \in DOMAIN results[i].records :
                LET record == results[i].records[m]
                IN  record.level > 0 =>
                        /\ ProductsOf(record) # { }
                        /\ \A p \in ProductsOf(record) :
                              record.has_child_bom <=> ActiveBoms(p.id) # { }

\* a returned list holds a collapsed record with a BOM of its own and a
\* record without one
C26_Witness ==
    \E i \in DOMAIN results :
        /\ results[i].outcome = "returned"
        /\ catalog = CatBottomOut
        /\ \E m \in DOMAIN results[i].records :
              /\ results[i].records[m].component_reference = << "C" >>
              /\ results[i].records[m].parent_bom_reference = << "A" >>
              /\ results[i].records[m].has_child_bom
        /\ \E m \in DOMAIN results[i].records :
              /\ results[i].records[m].level > 0
              /\ ~ results[i].records[m].has_child_bom

\* ---------------------------------------------------------------------------
\* C27: a record with has_child_bom is followed by its components
\* ---------------------------------------------------------------------------

\* the BOM graph is a tree: it has no cycle and no product with a BOM is the
\* component of two lines
BomTree ==
    /\ Acyclic
    /\ \A p \in ProductIds :
          ActiveBoms(p) # { } =>
              Cardinality({ n \in DOMAIN catalog.mrp_bom_line :
                              catalog.mrp_bom_line[n].product_id = p }) <= 1

\* the products a record of a returned list stands for, the root included
RecordProducts(record) ==
    IF record.level = 0
    THEN Range(get_product_by_reference(record.component_reference))
    ELSE ProductsOf(record)

\* what the records below a record name as their parent
NamedAs(record) ==
    IF record.component_reference # << >> THEN record.component_reference
    ELSE record.component_name

\* every record with has_child_bom whose BOM has a surviving component is
\* followed by a record that names it as parent
FollowedByComponents(records) ==
    \A m \in DOMAIN records :
        (/\ records[m].has_child_bom
         /\ \E p \in RecordProducts(records[m]) :
               /\ ActiveBoms(p.id) # { }
               /\ SurvivingLines(BomOf(p.id).id) # { })
            => \E n \in DOMAIN records :
                  /\ n > m
                  /\ records[n].parent_bom_reference = NamedAs(records[m])

\* C27: in a BOM tree, every record of a returned list that has has_child_bom
\* true and whose BOM has a surviving component is followed by a record whose
\* parent_bom_reference names it, the records that a collapse bottomed out at
\* included.
C27_ComponentsEmitted ==
    \A i \in DOMAIN results :
        (BomTree /\ results[i].outcome = "returned")
            => FollowedByComponents(results[i].records)

\* ---------------------------------------------------------------------------
\* C28: the shape of a returned list
\* ---------------------------------------------------------------------------

\* C28: the first record of every returned list is its only level-0 record;
\* it carries the reference that was asked for, quantity 1.00, no parent
\* reference, no parent name and has_child_bom true; every other record has
\* a level of at least 1 and a parent reference that is not empty.
C28_RootRecord ==
    \A i \in DOMAIN results :
        results[i].outcome = "returned" =>
            LET records == results[i].records
            IN  /\ records # << >>
                /\ records[1].level = 0
                /\ records[1].component_reference = results[i].reference
                /\ records[1].component_quantity = format_2f(Q(1, 1))
                /\ records[1].parent_bom_reference = << >>
                /\ records[1].parent_bom_name = << >>
                /\ records[1].has_child_bom = TRUE
                /\ \A m \in 2..Len(records) :
                      /\ records[m].level >= 1
                      /\ records[m].parent_bom_reference # << >>

\* a fetch has returned a list with components on two levels
C28_Witness ==
    \E i \in DOMAIN results :
        /\ results[i].outcome = "returned"
        /\ \E m \in DOMAIN results[i].records : results[i].records[m].level = 1
        /\ \E m \in DOMAIN results[i].records : results[i].records[m].level = 2

\* ---------------------------------------------------------------------------
\* C29, C30: the Google Drive sync
\* ---------------------------------------------------------------------------

\* the key the claims group the files of a directory by: the first five
\* characters of the stem, and the extension
PrefixKey(name) == << first_chars(path_stem(name), 5), path_suffix(name) >>

\* the local files of the target directory, once a run of the sync has started
DriveLocal == IF drive.pc = "off" THEN { } ELSE DOMAIN drive.local

OnePerPrefixIn(dirs) ==
    \A f \in DriveLocal : \A g \in DriveLocal :
        (/\ f.dir \in dirs
         /\ f.dir = g.dir
         /\ PrefixKey(f.name) = PrefixKey(g.name)) => f = g

\* C29: starting from an empty target directory, after any sequence of runs,
\* every local directory at any nesting depth holds at most one file per
\* (first five characters of the stem, extension).
C29_OnePerPrefix == OnePerPrefixIn(DriveFolders)

\* The same for the target directory and the folders directly below it, where
\* download_file looks into the directory main looked into.
C29_ShallowOnePerPrefix == OnePerPrefixIn({ d \in DriveFolders : Len(d) <= 1 })

\* a run is a repetition: the listing is the one of the run before, whose
\* downloads all succeeded, so that the local files and the sidecar are the
\* ones that run left
DriveRepeated ==
    /\ drive.pc \in { "sync", "done" }
    /\ drive.previous # << >>
    /\ drive.previous[1].files = drive.files
    /\ ~ drive.previous[1].failed

\* C30: a run repeated with unchanged remote files, unchanged local files and
\* the sidecar of the previous run downloads nothing, and every listed file
\* is counted as skipped.
C30_RepeatDownloadsNothing ==
    DriveRepeated =>
        /\ drive.downloads = << >>
        /\ drive.pc = "done" => drive.skipped = Len(drive.files)

\* The same for the repetitions in which every listed file exists locally
\* under its own name and no two listed files share a prefix and extension.
C30_RepeatOfOwnNames ==
    (/\ DriveRepeated
     /\ \A i \in 1..Len(drive.files) :
            /\ full_file_path(drive.files[i]) \in DOMAIN drive.local
            /\ \A j \in 1..Len(drive.files) :
                   PrefixKey(drive.files[i].name) = PrefixKey(drive.files[j].name)
                       => i = j) =>
        /\ drive.downloads = << >>
        /\ drive.pc = "done" => drive.skipped = Len(drive.files)
====
